---- MODULE Spec2Model ----
(***************************************************************************)
(* A model of gparedis: the generic typed Repository[T] over a shared      *)
(* Redis connection (repository.go) and the Provider that owns the         *)
(* connection.                                                             *)
(*                                                                         *)
(* Strings (keys, prefixes, patterns) are sequences of one-character       *)
(* strings, so that prefixing is concatenation and prefix stripping is     *)
(* slicing, as in the code.  The store maps full keys to entries           *)
(* [data, ttl]; data is the stored byte string, modelled by its JSON       *)
(* shape: <<"null">>, <<"int", n>> (a decimal integer written by INCRBY),  *)
(* or <<"obj", Name, Age, Score>> (an encoded T).                          *)
(***************************************************************************)
EXTENDS Integers, Sequences, FiniteSets, TLC

VARIABLES
    store,    \* the Redis keyspace: full key -> [data, ttl]
    pc,       \* per caller: "idle", or the DeleteKey call it is inside
    ret,      \* the record of the last step: operation, inputs, result
    lease,    \* history: full key -> the callers' last decision about the
              \* key's expiry, [op, ttl, age]: a SetWithTTL with a TTL (kept
              \* until the key is written, deleted or given another TTL) or
              \* a RemoveTTL (kept until the key is deleted or given a TTL);
              \* age is the number of seconds passed since
    prov,     \* the Provider: its config, the options its client was built
              \* with, its client and the clients nobody holds any more
    written   \* history: full key -> what the callers' successful writes
              \* put there since it was last deleted or expired: the
              \* pointer given to Set/MSet ([val, by]) or the sum of the
              \* deltas given to Increment/Decrement ([sum, by, who]), by
              \* being the prefix of the repository that wrote

vars == <<store, pc, ret, written, lease, prov>>

(***************************************************************************)
(* Bounds of the model.                                                    *)
(***************************************************************************)
\* longest key list given to MGet / MDelete
MaxBatch == 2
\* largest TTL (in seconds) a caller asks for
MaxTTL == 2
\* width of the integers standing for int64
IntBits == 4

MinInt == -(2 ^ (IntBits - 1))
MaxInt == (2 ^ (IntBits - 1)) - 1

(***************************************************************************)
(* Typed values.  T is a record type; Score stands for a float field,      *)
(* which encoding/json refuses to encode when it is NaN.  A *T is a T or   *)
(* the nil pointer.                                                        *)
(***************************************************************************)
Zero    == [Name |-> "", Age |-> 0, Score |-> "0"]
Alice   == [Name |-> "Alice", Age |-> 30, Score |-> "0"]
BadNaN  == [Name |-> "Bob", Age |-> 25, Score |-> "NaN"]
NilPtr  == [nil |-> TRUE]

TValues   == {Zero, Alice}
Pointers  == TValues \cup {BadNaN, NilPtr}

\* json.Marshal(value): whether it succeeds, and the bytes it gives
MarshalOk(value) == value = NilPtr \/ value.Score # "NaN"
Marshal(value) ==
    IF value = NilPtr THEN <<"null">>
    ELSE <<"obj", value.Name, value.Age, value.Score>>

\* json.Unmarshal(data, &entity) into a zero-initialised T
UnmarshalOk(data) == data[1] \in {"obj", "null"}
\* mutant: the decoder loses the Age field
UnmarshalDropsAge(data) ==
    IF data[1] = "null" THEN Zero
    ELSE [Name |-> data[2], Age |-> 0, Score |-> data[4]]

Unmarshal(data) ==
    IF data[1] = "null" THEN Zero
    ELSE [Name |-> data[2], Age |-> data[3], Score |-> data[4]]

(***************************************************************************)
(* Key-space discipline.                                                   *)
(***************************************************************************)
\* A repository is identified by its keyPrefix.
buildKey(keyPrefix, key) ==
    IF keyPrefix = <<>> THEN key ELSE keyPrefix \o key

\* the prefix stripping of Keys and Scan, for one returned key
stripPrefix(keyPrefix, key) ==
    IF keyPrefix # <<>>
       /\ Len(key) > Len(keyPrefix)
       /\ SubSeq(key, 1, Len(keyPrefix)) = keyPrefix
    THEN SubSeq(key, Len(keyPrefix) + 1, Len(key))
    ELSE key

(***************************************************************************)
(* The store's commands, as go-redis issues them.  NoExpiry is the TTL of  *)
(* a persistent key, as the TTL command reports it.                        *)
(***************************************************************************)
NoExpiry == -1

\* redis.KeepTTL, the duration that the client's Set takes as the request
\* to keep the expiry of the key: one nanosecond below zero, the same
\* duration that TTL reports for a persistent key.  Among the durations of
\* the model, whose positive values are seconds, KeepTTL - 1 stands for the
\* other negative durations.
KeepTTL == NoExpiry

Present(s, fk) == fk \in DOMAIN s

\* the history of expiry decisions: a decision is recorded, forgotten, or
\* kept across a write that does not give the key a TTL (only a RemoveTTL
\* is kept across it)
LeasePut(l, fk, op, ttl) ==
    [k \in DOMAIN l \cup {fk} |->
        IF k = fk THEN [op |-> op, ttl |-> ttl, age |-> 0] ELSE l[k]]
LeaseDrop(l, fks) == [k \in DOMAIN l \ fks |-> l[k]]
LeaseRewrite(l, fks) ==
    [k \in {x \in DOMAIN l : x \in fks => l[x].op = "RemoveTTL"} |-> l[k]]

\* mutant: SET drops the expiry it is given
RedisSetForever(s, fk, data, ttl) ==
    [k \in DOMAIN s \cup {fk} |->
        IF k = fk THEN [data |-> data, ttl |-> NoExpiry] ELSE s[k]]

\* the client's Set(fk, data, ttl): SET fk data EX ttl for a positive ttl,
\* SET fk data KEEPTTL for the duration KeepTTL, which leaves the expiry of
\* an existing key as it is, and a plain SET, which writes a persistent
\* key, for zero and the other negative durations
RedisSet(s, fk, data, ttl) ==
    [k \in DOMAIN s \cup {fk} |->
        IF k = fk
        THEN [data |-> data,
              ttl |-> IF ttl > 0 THEN ttl
                      ELSE IF ttl = KeepTTL /\ Present(s, fk) THEN s[fk].ttl
                      ELSE NoExpiry]
        ELSE s[k]]

\* DEL fk...: the keyspace afterwards, and the number of keys removed
RedisDel(s, fks) == [k \in DOMAIN s \ fks |-> s[k]]
RedisDelCount(s, fks) == Cardinality(fks \cap DOMAIN s)

\* EXISTS fk: the number of the given keys that exist
RedisExists(s, fk) == IF Present(s, fk) THEN 1 ELSE 0

(***************************************************************************)
(* Errors.  An error value is nil (NoErr), a raw error of the client       *)
(* library [raw |-> name] ("Nil" is redis.Nil, "io" a failed command,      *)
(* "ERR" an error reply of the store, "closed" the error of a closed       *)
(* client), a wrapped error [wraps |-> e] made by fmt.Errorf, or a         *)
(* gpa.GPAError [Type, Message, Cause].                                    *)
(***************************************************************************)
Kinds == {"NotFound", "Serialization", "Validation", "Database", "Unsupported"}

NoErr == [none |-> TRUE]
RedisNil == [raw |-> "Nil"]
RawError(name) == IF name \in {"", "ok"} THEN NoErr ELSE [raw |-> name]

IsGPAError(err) == "Type" \in DOMAIN err
NewErrorWithCause(type, message, cause) ==
    [Type |-> type, Message |-> message, Cause |-> cause]
NewError(type, message) == NewErrorWithCause(type, message, NoErr)

\* the kind a caller sees: "ok" for nil, the Type of a GPAError, and "plain"
\* for an error that is not a GPAError
Kind(err) ==
    IF err = NoErr THEN "ok"
    ELSE IF IsGPAError(err) THEN err.Type
    ELSE "plain"

\* mutant: an already translated error is wrapped again
convertRedisErrorRewraps(err) ==
    IF err = NoErr THEN NoErr
    ELSE IF err = RedisNil THEN NewErrorWithCause("NotFound", "key not found", err)
    ELSE NewErrorWithCause("Database", "redis error", err)

convertRedisError(err) ==
    IF err = NoErr THEN NoErr
    ELSE IF err = RedisNil THEN NewErrorWithCause("NotFound", "key not found", err)
    ELSE IF IsGPAError(err) THEN err
    ELSE NewErrorWithCause("Database", "redis error", err)

\* the kind of the translated error of a store command that answered reply
KindOf(reply) == Kind(convertRedisError(RawError(reply)))

\* what a store command answers: reply "ok", or "io" for a command that fails
Replies == {"ok", "io"}

Idle == [stage |-> "idle"]

(***************************************************************************)
(* Repository.Get: the result record [err, val, hooks] of the call, which  *)
(* DeleteKey uses too.  fails is the set of hooks that return an error     *)
(* when run.                                                               *)
(***************************************************************************)
\* mutant: a failing after-find hook fails the read
GetResultAfterFindAborts(s, keyPrefix, key, reply, fails) ==
    LET fullKey == buildKey(keyPrefix, key) IN
    IF reply # "ok"
    THEN [err |-> KindOf(reply), val |-> NilPtr, hooks |-> <<>>]
    ELSE IF ~Present(s, fullKey)
    THEN [err |-> "NotFound", val |-> NilPtr, hooks |-> <<>>]
    ELSE IF ~UnmarshalOk(s[fullKey].data)
    THEN [err |-> "Serialization", val |-> NilPtr, hooks |-> <<>>]
    ELSE IF "AfterFind" \in fails
    THEN [err |-> "Validation", val |-> NilPtr, hooks |-> <<"AfterFind">>]
    ELSE [err |-> "ok", val |-> Unmarshal(s[fullKey].data), hooks |-> <<"AfterFind">>]

\* mutant: the store's nil reply is treated like any other store error
GetResultNilIsError(s, keyPrefix, key, reply, fails) ==
    LET fullKey == buildKey(keyPrefix, key) IN
    IF reply # "ok" \/ ~Present(s, fullKey)
    THEN [err |-> "Database", val |-> NilPtr, hooks |-> <<>>]
    ELSE IF ~UnmarshalOk(s[fullKey].data)
    THEN [err |-> "Serialization", val |-> NilPtr, hooks |-> <<>>]
    ELSE [err |-> "ok", val |-> Unmarshal(s[fullKey].data), hooks |-> <<"AfterFind">>]

GetResult(s, keyPrefix, key, reply, fails) ==
    LET fullKey == buildKey(keyPrefix, key) IN
    IF reply # "ok"
    THEN [err |-> KindOf(reply), val |-> NilPtr, hooks |-> <<>>]
    ELSE IF ~Present(s, fullKey)
    THEN [err |-> "NotFound", val |-> NilPtr, hooks |-> <<>>]
    ELSE IF ~UnmarshalOk(s[fullKey].data)
    THEN [err |-> "Serialization", val |-> NilPtr, hooks |-> <<>>]
    ELSE [err |-> "ok", val |-> Unmarshal(s[fullKey].data), hooks |-> <<"AfterFind">>]

Get(c, keyPrefix, key, reply, fails) ==
    /\ pc[c] = Idle
    /\ LET res == GetResult(store, keyPrefix, key, reply, fails) IN
       ret' = [op |-> "Get", c |-> c, r |-> keyPrefix, key |-> key, reply |-> reply,
               fails |-> fails, err |-> res.err, val |-> res.val, hooks |-> res.hooks]
    /\ UNCHANGED <<store, pc, written, lease, prov>>

(***************************************************************************)
(* Repository.SetWithTTL and Repository.Set.                               *)
(***************************************************************************)
\* mutant: the value is written before the before-create hook is asked
SetWithTTLAsHookLate(op, c, keyPrefix, key, value, ttl, reply, fails) ==
    LET fullKey == buildKey(keyPrefix, key)
        base == [op |-> op, c |-> c, r |-> keyPrefix, key |-> key, reply |-> reply,
                 fails |-> fails, ttl |-> ttl, value |-> value]
    IN
    /\ pc[c] = Idle
    /\ IF ~MarshalOk(value)
       THEN /\ ret' = base @@ [err |-> "Serialization", hooks |-> <<>>]
            /\ UNCHANGED <<store, written, lease>>
       ELSE IF reply # "ok"
       THEN /\ ret' = base @@ [err |-> KindOf(reply), hooks |-> <<>>]
            /\ UNCHANGED <<store, written, lease>>
       ELSE /\ store' = RedisSet(store, fullKey, Marshal(value), ttl)
            /\ written' = [k \in DOMAIN written \cup {fullKey} |->
                             IF k = fullKey THEN [val |-> value, by |-> keyPrefix]
                             ELSE written[k]]
            /\ lease' = IF ttl > 0 THEN LeasePut(lease, fullKey, "SetWithTTL", ttl)
                         ELSE LeaseRewrite(lease, {fullKey})
            /\ ret' = base @@ [err |-> IF "BeforeCreate" \in fails THEN "Validation" ELSE "ok",
                               hooks |-> <<"BeforeCreate">>]
    /\ UNCHANGED <<pc, prov>>

SetWithTTLAs(op, c, keyPrefix, key, value, ttl, reply, fails) ==
    LET fullKey == buildKey(keyPrefix, key)
        base == [op |-> op, c |-> c, r |-> keyPrefix, key |-> key, reply |-> reply,
                 fails |-> fails, ttl |-> ttl, value |-> value]
    IN
    /\ pc[c] = Idle
    /\ IF "BeforeCreate" \in fails
       THEN /\ ret' = base @@ [err |-> "Validation", hooks |-> <<"BeforeCreate">>]
            /\ UNCHANGED <<store, written, lease>>
       ELSE IF ~MarshalOk(value)
       THEN /\ ret' = base @@ [err |-> "Serialization", hooks |-> <<"BeforeCreate">>]
            /\ UNCHANGED <<store, written, lease>>
       ELSE IF reply # "ok"
       THEN /\ ret' = base @@ [err |-> KindOf(reply), hooks |-> <<"BeforeCreate">>]
            /\ UNCHANGED <<store, written, lease>>
       ELSE /\ store' = RedisSet(store, fullKey, Marshal(value), ttl)
            /\ written' = [k \in DOMAIN written \cup {fullKey} |->
                             IF k = fullKey THEN [val |-> value, by |-> keyPrefix]
                             ELSE written[k]]
            /\ lease' = IF ttl > 0 THEN LeasePut(lease, fullKey, "SetWithTTL", ttl)
                         ELSE LeaseRewrite(lease, {fullKey})
            /\ ret' = base @@ [err |-> "ok", hooks |-> <<"BeforeCreate", "AfterCreate">>]
    /\ UNCHANGED <<pc, prov>>

SetWithTTL(c, keyPrefix, key, value, ttl, reply, fails) ==
    SetWithTTLAs("SetWithTTL", c, keyPrefix, key, value, ttl, reply, fails)

Set(c, keyPrefix, key, value, reply, fails) ==
    SetWithTTLAs("Set", c, keyPrefix, key, value, 0, reply, fails)

(***************************************************************************)
(* Repository.DeleteKey: two store commands, so two steps.  The first      *)
(* reads the entity (Get) and runs the before-delete hook; the second      *)
(* issues DEL and runs the after-delete hook.  Other callers may act in    *)
(* between.                                                                *)
(***************************************************************************)
\* mutant: a NotFound read does not end the call, the DEL is issued anyway
DeleteKeyGetAlwaysDel(c, keyPrefix, key, reply, fails) ==
    LET res == GetResult(store, keyPrefix, key, reply, fails)
        base == [c |-> c, r |-> keyPrefix, key |-> key, reply |-> reply, fails |-> fails]
    IN
    /\ pc[c] = Idle
    /\ IF res.err = "ok" /\ "BeforeDelete" \in fails
       THEN /\ ret' = base @@ [op |-> "DeleteKey", err |-> "Validation",
                               hooks |-> res.hooks \o <<"BeforeDelete">>,
                               deleted |-> FALSE]
            /\ UNCHANGED pc
       ELSE /\ pc' = [pc EXCEPT ![c] =
                        [stage |-> "del", r |-> keyPrefix, key |-> key,
                         entity |-> res.val,
                         hooks |-> IF res.err = "ok"
                                   THEN res.hooks \o <<"BeforeDelete">>
                                   ELSE <<>>]]
            /\ ret' = base @@ [op |-> "DeleteKey.read", err |-> res.err,
                               hooks |-> res.hooks]
    /\ UNCHANGED <<store, written, lease, prov>>

\* mutant: the error of the before-delete hook is swallowed
DeleteKeyGetIgnoresHook(c, keyPrefix, key, reply, fails) ==
    LET res == GetResult(store, keyPrefix, key, reply, fails)
        base == [c |-> c, r |-> keyPrefix, key |-> key, reply |-> reply, fails |-> fails]
    IN
    /\ pc[c] = Idle
    /\ IF res.err = "NotFound"
       THEN /\ ret' = base @@ [op |-> "DeleteKey", err |-> "ok", hooks |-> <<>>,
                               deleted |-> FALSE]
            /\ UNCHANGED pc
       ELSE /\ pc' = [pc EXCEPT ![c] =
                        [stage |-> "del", r |-> keyPrefix, key |-> key,
                         entity |-> res.val,
                         hooks |-> IF res.err = "ok"
                                   THEN res.hooks \o <<"BeforeDelete">>
                                   ELSE <<>>]]
            /\ ret' = base @@ [op |-> "DeleteKey.read", err |-> res.err,
                               hooks |-> res.hooks]
    /\ UNCHANGED <<store, written, lease, prov>>

\* mutant: a read that fails for another reason than NotFound ends the
\* call with that error
DeleteKeyGetStopsOnError(c, keyPrefix, key, reply, fails) ==
    LET res == GetResult(store, keyPrefix, key, reply, fails)
        base == [c |-> c, r |-> keyPrefix, key |-> key, reply |-> reply, fails |-> fails]
    IN
    /\ pc[c] = Idle
    /\ IF res.err = "NotFound"
       THEN /\ ret' = base @@ [op |-> "DeleteKey", err |-> "ok", hooks |-> <<>>,
                               deleted |-> FALSE]
            /\ UNCHANGED pc
       ELSE IF res.err # "ok"
       THEN /\ ret' = base @@ [op |-> "DeleteKey", err |-> res.err, hooks |-> <<>>,
                               deleted |-> FALSE]
            /\ UNCHANGED pc
       ELSE IF "BeforeDelete" \in fails
       THEN /\ ret' = base @@ [op |-> "DeleteKey", err |-> "Validation",
                               hooks |-> res.hooks \o <<"BeforeDelete">>,
                               deleted |-> FALSE]
            /\ UNCHANGED pc
       ELSE /\ pc' = [pc EXCEPT ![c] =
                        [stage |-> "del", r |-> keyPrefix, key |-> key,
                         entity |-> res.val,
                         hooks |-> res.hooks \o <<"BeforeDelete">>]]
            /\ ret' = base @@ [op |-> "DeleteKey.read", err |-> res.err,
                               hooks |-> res.hooks]
    /\ UNCHANGED <<store, written, lease, prov>>

DeleteKeyGet(c, keyPrefix, key, reply, fails) ==
    LET res == GetResult(store, keyPrefix, key, reply, fails)
        base == [c |-> c, r |-> keyPrefix, key |-> key, reply |-> reply, fails |-> fails]
    IN
    /\ pc[c] = Idle
    /\ IF res.err = "NotFound"
       THEN /\ ret' = base @@ [op |-> "DeleteKey", err |-> "ok", hooks |-> <<>>,
                               deleted |-> FALSE]
            /\ UNCHANGED pc
       ELSE IF res.err = "ok" /\ "BeforeDelete" \in fails
       THEN /\ ret' = base @@ [op |-> "DeleteKey", err |-> "Validation",
                               hooks |-> res.hooks \o <<"BeforeDelete">>,
                               deleted |-> FALSE]
            /\ UNCHANGED pc
       ELSE /\ pc' = [pc EXCEPT ![c] =
                        [stage |-> "del", r |-> keyPrefix, key |-> key,
                         entity |-> res.val,
                         hooks |-> IF res.err = "ok"
                                   THEN res.hooks \o <<"BeforeDelete">>
                                   ELSE <<>>]]
            /\ ret' = base @@ [op |-> "DeleteKey.read", err |-> res.err,
                               hooks |-> res.hooks]
    /\ UNCHANGED <<store, written, lease, prov>>

\* mutant: the delete is conditional on the key still holding the value
\* that was read, as a compare-and-delete would be
DeleteKeyDelIfSame(c, reply, fails) ==
    /\ pc[c].stage = "del"
    /\ LET keyPrefix == pc[c].r
           key == pc[c].key
           fullKey == buildKey(keyPrefix, key)
           base == [op |-> "DeleteKey", c |-> c, r |-> keyPrefix, key |-> key,
                    reply |-> reply, fails |-> fails]
           same == \/ pc[c].entity = NilPtr
                   \/ Present(store, fullKey) /\ store[fullKey].data = Marshal(pc[c].entity)
       IN
       IF reply # "ok" \/ ~same
       THEN /\ ret' = base @@ [err |-> KindOf(reply), hooks |-> pc[c].hooks,
                               deleted |-> FALSE]
            /\ UNCHANGED <<store, written, lease>>
       ELSE /\ store' = RedisDel(store, {fullKey})
            /\ written' = [k \in DOMAIN written \ {fullKey} |-> written[k]]
            /\ lease' = LeaseDrop(lease, {fullKey})
            /\ ret' = base @@ [err |-> "ok",
                               hooks |-> IF pc[c].entity # NilPtr
                                         THEN pc[c].hooks \o <<"AfterDelete">>
                                         ELSE pc[c].hooks,
                               deleted |-> TRUE,
                               entity |-> pc[c].entity,
                               removed |-> IF Present(store, fullKey)
                                           THEN store[fullKey].data
                                           ELSE <<>>]
    /\ pc' = [pc EXCEPT ![c] = Idle]
    /\ UNCHANGED prov

DeleteKeyDel(c, reply, fails) ==
    /\ pc[c].stage = "del"
    /\ LET keyPrefix == pc[c].r
           key == pc[c].key
           fullKey == buildKey(keyPrefix, key)
           base == [op |-> "DeleteKey", c |-> c, r |-> keyPrefix, key |-> key,
                    reply |-> reply, fails |-> fails]
       IN
       IF reply # "ok"
       THEN /\ ret' = base @@ [err |-> KindOf(reply), hooks |-> pc[c].hooks,
                               deleted |-> FALSE]
            /\ UNCHANGED <<store, written, lease>>
       ELSE /\ store' = RedisDel(store, {fullKey})
            /\ written' = [k \in DOMAIN written \ {fullKey} |-> written[k]]
            /\ lease' = LeaseDrop(lease, {fullKey})
            /\ ret' = base @@ [err |-> "ok",
                               hooks |-> IF pc[c].entity # NilPtr
                                         THEN pc[c].hooks \o <<"AfterDelete">>
                                         ELSE pc[c].hooks,
                               deleted |-> TRUE,
                               entity |-> pc[c].entity,
                               removed |-> IF Present(store, fullKey)
                                           THEN store[fullKey].data
                                           ELSE <<>>]
    /\ pc' = [pc EXCEPT ![c] = Idle]
    /\ UNCHANGED prov

(***************************************************************************)
(* Repository.KeyExists.                                                   *)
(***************************************************************************)
\* mutant: the count of existing keys is compared with >= 0
KeyExistsGE(c, keyPrefix, key, reply) ==
    LET fullKey == buildKey(keyPrefix, key) IN
    /\ pc[c] = Idle
    /\ ret' = [op |-> "KeyExists", c |-> c, r |-> keyPrefix, key |-> key, reply |-> reply,
               err |-> KindOf(IF reply = "ok" THEN "" ELSE reply),
               val |-> reply = "ok" /\ RedisExists(store, fullKey) >= 0]
    /\ UNCHANGED <<store, pc, written, lease, prov>>

KeyExists(c, keyPrefix, key, reply) ==
    LET fullKey == buildKey(keyPrefix, key) IN
    /\ pc[c] = Idle
    /\ ret' = [op |-> "KeyExists", c |-> c, r |-> keyPrefix, key |-> key, reply |-> reply,
               err |-> KindOf(IF reply = "ok" THEN "" ELSE reply),
               val |-> reply = "ok" /\ RedisExists(store, fullKey) > 0]
    /\ UNCHANGED <<store, pc, written, lease, prov>>

(***************************************************************************)
(* Batch operations.  keys is the caller's list; pairs maps keys to        *)
(* pointers.                                                               *)
(***************************************************************************)
Range(f) == {f[i] : i \in DOMAIN f}

\* mutant: a nil reply is not skipped, the key is mapped to a zero value
MGetNoSkip(c, keyPrefix, keys, reply) ==
    LET found == {i \in DOMAIN keys : Present(store, buildKey(keyPrefix, keys[i]))}
        undecodable == {i \in found : ~UnmarshalOk(store[buildKey(keyPrefix, keys[i])].data)}
        base == [op |-> "MGet", c |-> c, r |-> keyPrefix, keys |-> keys, reply |-> reply]
    IN
    /\ pc[c] = Idle
    /\ IF Len(keys) = 0
       THEN ret' = base @@ [err |-> "ok", val |-> <<>>]
       ELSE IF reply # "ok"
       THEN ret' = base @@ [err |-> KindOf(reply), val |-> <<>>]
       ELSE IF undecodable # {}
       THEN ret' = base @@ [err |-> "Serialization", val |-> <<>>]
       ELSE ret' = base @@ [err |-> "ok",
                            val |-> [k \in Range(keys) |->
                                       IF Present(store, buildKey(keyPrefix, k))
                                       THEN Unmarshal(store[buildKey(keyPrefix, k)].data)
                                       ELSE Zero]]
    /\ UNCHANGED <<store, pc, written, lease, prov>>

\* MGET: one reply per requested full key, absent keys answer nil
MGet(c, keyPrefix, keys, reply) ==
    LET found == {i \in DOMAIN keys : Present(store, buildKey(keyPrefix, keys[i]))}
        undecodable == {i \in found : ~UnmarshalOk(store[buildKey(keyPrefix, keys[i])].data)}
        base == [op |-> "MGet", c |-> c, r |-> keyPrefix, keys |-> keys, reply |-> reply]
    IN
    /\ pc[c] = Idle
    /\ IF Len(keys) = 0
       THEN ret' = base @@ [err |-> "ok", val |-> <<>>]
       ELSE IF reply # "ok"
       THEN ret' = base @@ [err |-> KindOf(reply), val |-> <<>>]
       ELSE IF undecodable # {}
       THEN ret' = base @@ [err |-> "Serialization", val |-> <<>>]
       ELSE ret' = base @@ [err |-> "ok",
                            val |-> [k \in {keys[i] : i \in found} |->
                                       Unmarshal(store[buildKey(keyPrefix, k)].data)]]
    /\ UNCHANGED <<store, pc, written, lease, prov>>

\* MSET fk data ...: every key written persistent, in one command
RedisMSet(s, kv) ==
    [k \in DOMAIN s \cup DOMAIN kv |->
        IF k \in DOMAIN kv THEN [data |-> kv[k], ttl |-> NoExpiry] ELSE s[k]]

\* mutant: each pair is written as soon as it is encoded, so the pairs
\* encoded before the failing one are already in the store
MSetPartial(c, keyPrefix, pairs, reply) ==
    LET base == [op |-> "MSet", c |-> c, r |-> keyPrefix, pairs |-> pairs, reply |-> reply]
        good == {k \in DOMAIN pairs : MarshalOk(pairs[k])}
        fullKeys == {buildKey(keyPrefix, k) : k \in good}
        keyOf(fk) == CHOOSE k \in good : buildKey(keyPrefix, k) = fk
    IN
    /\ pc[c] = Idle
    /\ store' = RedisMSet(store, [fk \in fullKeys |-> Marshal(pairs[keyOf(fk)])])
    /\ written' = [k \in DOMAIN written \cup fullKeys |->
                     IF k \in fullKeys
                     THEN [val |-> pairs[keyOf(k)], by |-> keyPrefix]
                     ELSE written[k]]
    /\ lease' = LeaseRewrite(lease, fullKeys)
    /\ ret' = base @@ [err |-> IF good = DOMAIN pairs THEN "ok" ELSE "Serialization"]
    /\ UNCHANGED <<pc, prov>>

MSet(c, keyPrefix, pairs, reply) ==
    LET base == [op |-> "MSet", c |-> c, r |-> keyPrefix, pairs |-> pairs, reply |-> reply]
        fullKeys == {buildKey(keyPrefix, k) : k \in DOMAIN pairs}
        keyOf(fk) == CHOOSE k \in DOMAIN pairs : buildKey(keyPrefix, k) = fk
    IN
    /\ pc[c] = Idle
    /\ IF DOMAIN pairs = {}
       THEN /\ ret' = base @@ [err |-> "ok"]
            /\ UNCHANGED <<store, written, lease>>
       ELSE IF \E k \in DOMAIN pairs : ~MarshalOk(pairs[k])
       THEN /\ ret' = base @@ [err |-> "Serialization"]
            /\ UNCHANGED <<store, written, lease>>
       ELSE IF reply # "ok"
       THEN /\ ret' = base @@ [err |-> KindOf(reply)]
            /\ UNCHANGED <<store, written, lease>>
       ELSE /\ store' = RedisMSet(store, [fk \in fullKeys |-> Marshal(pairs[keyOf(fk)])])
            /\ written' = [k \in DOMAIN written \cup fullKeys |->
                             IF k \in fullKeys
                             THEN [val |-> pairs[keyOf(k)], by |-> keyPrefix]
                             ELSE written[k]]
            /\ lease' = LeaseRewrite(lease, fullKeys)
            /\ ret' = base @@ [err |-> "ok"]
    /\ UNCHANGED <<pc, prov>>

\* mutant: the length of the key list is returned, not the store's count
MDeleteLen(c, keyPrefix, keys, reply) ==
    LET base == [op |-> "MDelete", c |-> c, r |-> keyPrefix, keys |-> keys, reply |-> reply]
        fullKeys == {buildKey(keyPrefix, keys[i]) : i \in DOMAIN keys}
    IN
    /\ pc[c] = Idle
    /\ store' = RedisDel(store, fullKeys)
    /\ written' = [k \in DOMAIN written \ fullKeys |-> written[k]]
    /\ lease' = LeaseDrop(lease, fullKeys)
    /\ ret' = base @@ [err |-> "ok", val |-> Len(keys)]
    /\ UNCHANGED <<pc, prov>>

MDelete(c, keyPrefix, keys, reply) ==
    LET base == [op |-> "MDelete", c |-> c, r |-> keyPrefix, keys |-> keys, reply |-> reply]
        fullKeys == {buildKey(keyPrefix, keys[i]) : i \in DOMAIN keys}
    IN
    /\ pc[c] = Idle
    /\ IF Len(keys) = 0
       THEN /\ ret' = base @@ [err |-> "ok", val |-> 0]
            /\ UNCHANGED <<store, written, lease>>
       ELSE IF reply # "ok"
       THEN /\ ret' = base @@ [err |-> KindOf(reply), val |-> 0]
            /\ UNCHANGED <<store, written, lease>>
       ELSE /\ store' = RedisDel(store, fullKeys)
            /\ written' = [k \in DOMAIN written \ fullKeys |-> written[k]]
            /\ lease' = LeaseDrop(lease, fullKeys)
            /\ ret' = base @@ [err |-> "ok", val |-> RedisDelCount(store, fullKeys)]
    /\ UNCHANGED <<pc, prov>>

(***************************************************************************)
(* Atomic numeric operations.  INCRBY is one store command: it reads an    *)
(* absent key as 0, refuses a value that is not an integer and refuses a   *)
(* result outside the signed integer range; it keeps the key's TTL.        *)
(***************************************************************************)
IsInt(data) == data[1] = "int"

IncrByOld(s, fk) == IF Present(s, fk) THEN s[fk].data[2] ELSE 0

IncrByOk(s, fk, delta) ==
    /\ Present(s, fk) => IsInt(s[fk].data)
    /\ IncrByOld(s, fk) + delta >= MinInt
    /\ IncrByOld(s, fk) + delta <= MaxInt

IncrByVal(s, fk, delta) == IncrByOld(s, fk) + delta

\* mutant: the counter is overwritten with the value computed from a read
\* of an absent key, as a read-modify-write that lost the other update
RedisIncrByLost(s, fk, delta) ==
    [k \in DOMAIN s \cup {fk} |->
        IF k = fk
        THEN [data |-> <<"int", delta>>,
              ttl |-> IF Present(s, fk) THEN s[fk].ttl ELSE NoExpiry]
        ELSE s[k]]

RedisIncrBy(s, fk, delta) ==
    [k \in DOMAIN s \cup {fk} |->
        IF k = fk
        THEN [data |-> <<"int", IncrByVal(s, fk, delta)>>,
              ttl |-> IF Present(s, fk) THEN s[fk].ttl ELSE NoExpiry]
        ELSE s[k]]

\* the history of a counter key: the sum of the deltas the callers applied
WrittenSum(fk) ==
    IF fk \in DOMAIN written /\ "sum" \in DOMAIN written[fk] THEN written[fk].sum ELSE 0

WrittenWho(fk) ==
    IF fk \in DOMAIN written /\ "who" \in DOMAIN written[fk] THEN written[fk].who ELSE {}

IncrementAs(op, arg, c, keyPrefix, key, delta, reply) ==
    LET fullKey == buildKey(keyPrefix, key)
        base == [op |-> op, c |-> c, r |-> keyPrefix, key |-> key, delta |-> arg,
                 reply |-> reply]
    IN
    /\ pc[c] = Idle
    /\ IF reply # "ok" \/ ~IncrByOk(store, fullKey, delta)
       THEN /\ ret' = base @@ [err |-> KindOf(IF reply # "ok" THEN reply ELSE "ERR"),
                               val |-> 0]
            /\ UNCHANGED <<store, written, lease>>
       ELSE /\ store' = RedisIncrBy(store, fullKey, delta)
            /\ written' = [k \in DOMAIN written \cup {fullKey} |->
                             IF k = fullKey
                             THEN [sum |-> WrittenSum(fullKey)
                                            + (IF op = "Decrement" THEN -arg ELSE arg),
                                   by |-> keyPrefix,
                                   who |-> WrittenWho(fullKey) \cup {c}]
                             ELSE written[k]]
            /\ lease' = LeaseRewrite(lease, {fullKey})
            /\ ret' = base @@ [err |-> "ok", val |-> IncrByVal(store, fullKey, delta)]
    /\ UNCHANGED <<pc, prov>>

Increment(c, keyPrefix, key, delta, reply) ==
    IncrementAs("Increment", delta, c, keyPrefix, key, delta, reply)

\* mutant: Decrement passes delta on without negating it
NegateNone(delta) == delta

\* -delta in the integer width: the negation of the minimum wraps to itself
Negate(delta) == IF delta = MinInt THEN MinInt ELSE -delta

Decrement(c, keyPrefix, key, delta, reply) ==
    IncrementAs("Decrement", delta, c, keyPrefix, key, Negate(delta), reply)

(***************************************************************************)
(* Pattern operations.  The store matches glob patterns (star and          *)
(* question mark) against full keys.  The result maps each matching full   *)
(* key to the key returned for it.                                         *)
(***************************************************************************)
RECURSIVE GlobMatch(_, _)
GlobMatch(pattern, s) ==
    IF pattern = <<>> THEN s = <<>>
    ELSE IF Head(pattern) = "*"
    THEN GlobMatch(Tail(pattern), s) \/ (s # <<>> /\ GlobMatch(pattern, Tail(s)))
    ELSE /\ s # <<>>
         /\ Head(pattern) = "?" \/ Head(pattern) = Head(s)
         /\ GlobMatch(Tail(pattern), Tail(s))

RedisKeys(s, fullPattern) == {fk \in DOMAIN s : GlobMatch(fullPattern, fk)}

Keys(c, keyPrefix, pattern, reply) ==
    LET fullPattern == buildKey(keyPrefix, pattern)
        base == [op |-> "Keys", c |-> c, r |-> keyPrefix, pattern |-> pattern,
                 reply |-> reply]
    IN
    /\ pc[c] = Idle
    /\ IF reply # "ok"
       THEN ret' = base @@ [err |-> KindOf(reply), val |-> <<>>]
       ELSE ret' = base @@ [err |-> "ok",
                            val |-> [fk \in RedisKeys(store, fullPattern) |->
                                       stripPrefix(keyPrefix, fk)]]
    /\ UNCHANGED <<store, pc, written, lease, prov>>

\* SCAN cursor MATCH pattern COUNT count: the store answers a page, some of
\* the matching keys, and the next cursor (0 when the scan is complete).
Scan(c, keyPrefix, cursor, pattern, page, newCursor, reply) ==
    LET fullPattern == buildKey(keyPrefix, pattern)
        base == [op |-> "Scan", c |-> c, r |-> keyPrefix, pattern |-> pattern,
                 cursor |-> cursor, reply |-> reply]
    IN
    /\ pc[c] = Idle
    /\ page \subseteq RedisKeys(store, fullPattern)
    /\ IF reply # "ok"
       THEN ret' = base @@ [err |-> KindOf(reply), val |-> <<>>, next |-> 0]
       ELSE ret' = base @@ [err |-> "ok",
                            val |-> [fk \in page |-> stripPrefix(keyPrefix, fk)],
                            next |-> newCursor]
    /\ UNCHANGED <<store, pc, written, lease, prov>>

(***************************************************************************)
(* The relational operations: each returns an Unsupported error at once;   *)
(* some messages name the operation to use.  called says whether the       *)
(* callback given to Transaction was invoked.                              *)
(***************************************************************************)
RelationalOps ==
    {"Create", "CreateBatch", "FindByID", "FindAll", "Update", "UpdatePartial",
     "Delete", "DeleteByCondition", "Query", "QueryOne", "Count", "Exists",
     "Transaction", "RawQuery", "RawExec"}

UseInstead ==
    [FindByID |-> "Get", Update |-> "Set", Delete |-> "DeleteKey", Exists |-> "KeyExists"]

\* mutant: Transaction runs its callback and returns what it returned
UnsupportedRunsCallback(op, c, keyPrefix) ==
    /\ pc[c] = Idle
    /\ ret' = [op |-> op, c |-> c, r |-> keyPrefix,
               err |-> IF op = "Transaction" THEN "ok"
                       ELSE Kind(NewError("Unsupported", op)),
               hint |-> IF op \in DOMAIN UseInstead THEN UseInstead[op] ELSE "",
               called |-> op = "Transaction"]
    /\ UNCHANGED <<store, pc, written, lease, prov>>

Unsupported(op, c, keyPrefix) ==
    /\ pc[c] = Idle
    /\ ret' = [op |-> op, c |-> c, r |-> keyPrefix,
               err |-> Kind(NewError("Unsupported", op)),
               hint |-> IF op \in DOMAIN UseInstead THEN UseInstead[op] ELSE "",
               called |-> FALSE]
    /\ UNCHANGED <<store, pc, written, lease, prov>>

(***************************************************************************)
(* Expiry operations.  Durations are whole seconds, the unit of the        *)
(* store's EXPIRE and TTL commands.  TTL answers the remaining seconds,    *)
(* NoExpiry for a key without expiry and NoKey for an absent key.  EXPIRE  *)
(* answers whether the key exists and deletes it when the time is not      *)
(* positive.  PERSIST answers whether it removed an expiry: it answers     *)
(* false for an absent key and for a key that has none.                    *)
(***************************************************************************)
NoKey == NoExpiry - 1

RedisTTL(s, fk) == IF Present(s, fk) THEN s[fk].ttl ELSE NoKey

RedisExpireVal(s, fk) == Present(s, fk)
RedisExpire(s, fk, ttl) ==
    IF ~Present(s, fk) THEN s
    ELSE IF ttl <= 0 THEN RedisDel(s, {fk})
    ELSE [s EXCEPT ![fk].ttl = ttl]

RedisPersistVal(s, fk) == Present(s, fk) /\ s[fk].ttl # NoExpiry
\* mutant: PERSIST reports the expiry removed and leaves it running
RedisPersistKeeps(s, fk) == s

RedisPersist(s, fk) ==
    IF RedisPersistVal(s, fk) THEN [s EXCEPT ![fk].ttl = NoExpiry] ELSE s

TTLAs(op, c, keyPrefix, key, reply) ==
    LET fullKey == buildKey(keyPrefix, key) IN
    /\ pc[c] = Idle
    /\ ret' = [op |-> op, c |-> c, r |-> keyPrefix, key |-> key, reply |-> reply,
               err |-> KindOf(reply),
               val |-> IF reply = "ok" THEN RedisTTL(store, fullKey) ELSE 0]
    /\ UNCHANGED <<store, pc, written, lease, prov>>

TTL(c, keyPrefix, key, reply) == TTLAs("TTL", c, keyPrefix, key, reply)

GetTTL(c, keyPrefix, key, reply) == TTLAs("GetTTL", c, keyPrefix, key, reply)

\* what EXPIRE does to the store and to the histories, for Expire and SetTTL
ExpireEffect(fullKey, ttl) ==
    /\ store' = RedisExpire(store, fullKey, ttl)
    /\ written' = IF Present(store, fullKey) /\ ttl <= 0
                  THEN [k \in DOMAIN written \ {fullKey} |-> written[k]]
                  ELSE written
    /\ lease' = IF Present(store, fullKey) THEN LeaseDrop(lease, {fullKey}) ELSE lease

\* Expire does not look at the command's answer
Expire(c, keyPrefix, key, ttl, reply) ==
    LET fullKey == buildKey(keyPrefix, key)
        base == [op |-> "Expire", c |-> c, r |-> keyPrefix, key |-> key, ttl |-> ttl,
                 reply |-> reply]
    IN
    /\ pc[c] = Idle
    /\ IF reply # "ok"
       THEN /\ ret' = base @@ [err |-> KindOf(reply)]
            /\ UNCHANGED <<store, written, lease>>
       ELSE /\ ExpireEffect(fullKey, ttl)
            /\ ret' = base @@ [err |-> "ok"]
    /\ UNCHANGED <<pc, prov>>

\* mutant: SetTTL does not look at the command's answer either
SetTTLNoCheck(c, keyPrefix, key, ttl, reply) ==
    LET fullKey == buildKey(keyPrefix, key)
        base == [op |-> "SetTTL", c |-> c, r |-> keyPrefix, key |-> key, ttl |-> ttl,
                 reply |-> reply]
    IN
    /\ pc[c] = Idle
    /\ IF reply # "ok"
       THEN /\ ret' = base @@ [err |-> KindOf(reply)]
            /\ UNCHANGED <<store, written, lease>>
       ELSE /\ ExpireEffect(fullKey, ttl)
            /\ ret' = base @@ [err |-> "ok"]
    /\ UNCHANGED <<pc, prov>>

SetTTL(c, keyPrefix, key, ttl, reply) ==
    LET fullKey == buildKey(keyPrefix, key)
        base == [op |-> "SetTTL", c |-> c, r |-> keyPrefix, key |-> key, ttl |-> ttl,
                 reply |-> reply]
    IN
    /\ pc[c] = Idle
    /\ IF reply # "ok"
       THEN /\ ret' = base @@ [err |-> KindOf(reply)]
            /\ UNCHANGED <<store, written, lease>>
       ELSE /\ ExpireEffect(fullKey, ttl)
            /\ ret' = base @@ [err |-> IF RedisExpireVal(store, fullKey) THEN "ok"
                                       ELSE Kind(NewError("NotFound", "key not found"))]
    /\ UNCHANGED <<pc, prov>>

RemoveTTL(c, keyPrefix, key, reply) ==
    LET fullKey == buildKey(keyPrefix, key)
        base == [op |-> "RemoveTTL", c |-> c, r |-> keyPrefix, key |-> key, reply |-> reply]
    IN
    /\ pc[c] = Idle
    /\ IF reply # "ok"
       THEN /\ ret' = base @@ [err |-> KindOf(reply)]
            /\ UNCHANGED <<store, written, lease>>
       ELSE IF ~RedisPersistVal(store, fullKey)
       THEN /\ ret' = base @@ [err |-> Kind(NewError("NotFound", "key not found"))]
            /\ UNCHANGED <<store, written, lease>>
       ELSE /\ store' = RedisPersist(store, fullKey)
            /\ lease' = LeasePut(lease, fullKey, "RemoveTTL", store[fullKey].ttl)
            /\ ret' = base @@ [err |-> "ok"]
            /\ UNCHANGED written
    /\ UNCHANGED <<pc, prov>>

(***************************************************************************)
(* Time: one second passes.  Every expiring key comes a second closer to   *)
(* its expiry and the keys that reach it are gone.                         *)
(***************************************************************************)
Expiring(s) == {k \in DOMAIN s : s[k].ttl = 1}

Tick ==
    /\ \/ \E k \in DOMAIN store : store[k].ttl > 0
       \/ \E k \in DOMAIN lease : lease[k].age <= lease[k].ttl
    /\ store' = [k \in DOMAIN store \ Expiring(store) |->
                   IF store[k].ttl > 0
                   THEN [store[k] EXCEPT !.ttl = store[k].ttl - 1]
                   ELSE store[k]]
    /\ written' = [k \in DOMAIN written \ Expiring(store) |-> written[k]]
    /\ lease' = [k \in DOMAIN lease |->
                   IF lease[k].age <= lease[k].ttl
                   THEN [lease[k] EXCEPT !.age = lease[k].age + 1]
                   ELSE lease[k]]
    /\ ret' = [op |-> "Tick"]
    /\ UNCHANGED <<pc, prov>>

(***************************************************************************)
(* String functions of the standard library, on sequences of characters.   *)
(***************************************************************************)
HasPrefix(s, p) == Len(s) >= Len(p) /\ SubSeq(s, 1, Len(p)) = p
TrimPrefix(s, p) == IF HasPrefix(s, p) THEN SubSeq(s, Len(p) + 1, Len(s)) ELSE s
Contains(s, ch) == \E i \in 1..Len(s) : s[i] = ch

\* strings.Split(s, ch) for a one-character separator
RECURSIVE Split(_, _)
Split(s, ch) ==
    IF ~Contains(s, ch) THEN <<s>>
    ELSE LET i == CHOOSE i \in 1..Len(s) : s[i] = ch /\ \A j \in 1..(i - 1) : s[j] # ch
         IN <<SubSeq(s, 1, i - 1)>> \o Split(SubSeq(s, i + 1, Len(s)), ch)

Digits == <<"0", "1", "2", "3", "4", "5", "6", "7", "8", "9">>
IsDigit(ch) == \E i \in 1..Len(Digits) : Digits[i] = ch
DigitVal(ch) == (CHOOSE i \in 1..Len(Digits) : Digits[i] = ch) - 1

RECURSIVE DigitsVal(_)
DigitsVal(s) ==
    IF s = <<>> THEN 0
    ELSE 10 * DigitsVal(SubSeq(s, 1, Len(s) - 1)) + DigitVal(s[Len(s)])

\* strconv.Atoi: an optional sign and at least one decimal digit
AtoiBody(s) == IF s # <<>> /\ s[1] \in {"+", "-"} THEN Tail(s) ELSE s
AtoiOk(s) == AtoiBody(s) # <<>> /\ \A i \in 1..Len(AtoiBody(s)) : IsDigit(AtoiBody(s)[i])
AtoiVal(s) ==
    IF s[1] = "-" THEN -DigitsVal(AtoiBody(s)) ELSE DigitsVal(AtoiBody(s))

\* the %d verb of fmt.Sprintf
RECURSIVE ItoaNat(_)
ItoaNat(n) ==
    IF n < 10 THEN <<Digits[n + 1]>>
    ELSE ItoaNat(n \div 10) \o <<Digits[(n % 10) + 1]>>
Itoa(n) == IF n < 0 THEN <<"-">> \o ItoaNat(-n) ELSE ItoaNat(n)

\* time.ParseDuration, in seconds, for the forms the callers use: a decimal
\* number followed by the unit s, m or h
DurationUnits == [s |-> 1, m |-> 60, h |-> 3600]
ParseDurationOk(s) ==
    /\ Len(s) >= 2
    /\ s[Len(s)] \in DOMAIN DurationUnits
    /\ \A i \in 1..(Len(s) - 1) : IsDigit(s[i])
ParseDurationVal(s) == DigitsVal(SubSeq(s, 1, Len(s) - 1)) * DurationUnits[s[Len(s)]]

(***************************************************************************)
(* buildRedisOptions and applyRedisOptions.  A gpa.Config and a            *)
(* redis.Options are records; a value of an options map is tagged with     *)
(* its dynamic type: <<"int", n>>, <<"dur", seconds>>, <<"str", chars>>.   *)
(***************************************************************************)
ZeroConfig ==
    [ConnectionURL |-> <<>>, Host |-> <<>>, Port |-> 0, Database |-> <<>>,
     Username |-> <<>>, Password |-> <<>>, MaxOpenConns |-> 0, MaxIdleConns |-> 0,
     Options |-> <<>>]

ZeroOptions ==
    [Addr |-> <<>>, DB |-> 0, Username |-> <<>>, Password |-> <<>>,
     PoolSize |-> 0, MinIdleConns |-> 0, MaxRetries |-> 0, DialTimeout |-> 0,
     ReadTimeout |-> 0, WriteTimeout |-> 0, PoolTimeout |-> 0]

RedisScheme == <<"r", "e", "d", "i", "s", ":", "/", "/">>
DefaultAddr == <<"l", "o", "c", "a", "l", "h", "o", "s", "t", ":", "6", "3", "7", "9">>
DefaultHost == <<"l", "o", "c", "a", "l", "h", "o", "s", "t">>
DefaultPort == DigitsVal(<<"6", "3", "7", "9">>)

\* an error made by fmt.Errorf: not a GPAError; wraps is the %w operand
Errorf(message, cause) == [msg |-> message, wraps |-> cause]

\* the URL branch: redis://[username:password@]host[:port][/db]
optionsOfURL(connectionURL) ==
    LET url      == TrimPrefix(connectionURL, RedisScheme)
        parts    == Split(url, "@")
        hasAuth  == Len(parts) = 2
        authPart == parts[1]
        hostDb   == IF hasAuth THEN parts[2] ELSE parts[1]
        authParts == Split(authPart, ":")
        hostDbParts == Split(hostDb, "/")
        hostPart == IF Contains(hostDb, "/") THEN hostDbParts[1] ELSE hostDb
        dbGiven  == Contains(hostDb, "/") /\ Len(hostDbParts) > 1
                    /\ hostDbParts[2] # <<>> /\ AtoiOk(hostDbParts[2])
    IN [ZeroOptions EXCEPT
          !.Addr = IF hostPart # <<>> THEN hostPart ELSE DefaultAddr,
          !.DB = IF dbGiven THEN AtoiVal(hostDbParts[2]) ELSE 0,
          !.Username = IF hasAuth /\ Contains(authPart, ":") THEN authParts[1] ELSE <<>>,
          !.Password = IF ~hasAuth THEN <<>>
                       ELSE IF Contains(authPart, ":") THEN authParts[2]
                       ELSE authPart]

\* the branch of the individual parameters
optionsOfParams(config) ==
    LET host == IF config.Host = <<>> THEN DefaultHost ELSE config.Host
        port == IF config.Port = 0 THEN DefaultPort ELSE config.Port
    IN [ZeroOptions EXCEPT
          !.Addr = host \o <<":">> \o Itoa(port),
          !.Username = config.Username,
          !.Password = config.Password,
          !.DB = IF config.Database # <<>> /\ AtoiOk(config.Database)
                 THEN AtoiVal(config.Database) ELSE 0]

poolSettings(opts, config) ==
    [opts EXCEPT
       !.PoolSize = IF config.MaxOpenConns > 0 THEN config.MaxOpenConns ELSE @,
       !.MinIdleConns = IF config.MaxIdleConns > 0 THEN config.MaxIdleConns ELSE @]

\* the result [opts, err] of buildRedisOptions
buildRedisOptions(config) ==
    IF config.ConnectionURL # <<>>
    THEN [opts |-> poolSettings(optionsOfURL(config.ConnectionURL), config), err |-> NoErr]
    ELSE IF config.Database # <<>> /\ ~AtoiOk(config.Database)
    THEN [opts |-> ZeroOptions, err |-> Errorf("invalid database number", NoErr)]
    ELSE [opts |-> poolSettings(optionsOfParams(config), config), err |-> NoErr]

Has(m, name) == name \in DOMAIN m

timeoutOption(old, redisOptions, name) ==
    IF ~Has(redisOptions, name) THEN old
    ELSE IF redisOptions[name][1] = "dur" THEN redisOptions[name][2]
    ELSE IF redisOptions[name][1] = "str" /\ ParseDurationOk(redisOptions[name][2])
    THEN ParseDurationVal(redisOptions[name][2])
    ELSE old

\* an option that is present and holds an int
HasInt(redisOptions, name) == Has(redisOptions, name) /\ redisOptions[name][1] = "int"

\* an applyRedisOptions that took pool_size and min_idle_conns without
\* looking at their range
applyRedisOptionsNoRange(opts, redisOptions) ==
    [opts EXCEPT
       !.MaxRetries = IF HasInt(redisOptions, "max_retries")
                      THEN redisOptions["max_retries"][2] ELSE @,
       !.PoolSize = IF HasInt(redisOptions, "pool_size")
                    THEN redisOptions["pool_size"][2] ELSE @,
       !.MinIdleConns = IF HasInt(redisOptions, "min_idle_conns")
                        THEN redisOptions["min_idle_conns"][2] ELSE @,
       !.DialTimeout = timeoutOption(@, redisOptions, "dial_timeout"),
       !.ReadTimeout = timeoutOption(@, redisOptions, "read_timeout"),
       !.WriteTimeout = timeoutOption(@, redisOptions, "write_timeout"),
       !.PoolTimeout = timeoutOption(@, redisOptions, "pool_timeout")]

applyRedisOptions(opts, redisOptions) ==
    [opts EXCEPT
       !.MaxRetries = IF HasInt(redisOptions, "max_retries")
                      THEN redisOptions["max_retries"][2] ELSE @,
       !.PoolSize = IF HasInt(redisOptions, "pool_size") /\ redisOptions["pool_size"][2] > 0
                    THEN redisOptions["pool_size"][2] ELSE @,
       !.MinIdleConns = IF HasInt(redisOptions, "min_idle_conns")
                           /\ redisOptions["min_idle_conns"][2] >= 0
                        THEN redisOptions["min_idle_conns"][2] ELSE @,
       !.DialTimeout = timeoutOption(@, redisOptions, "dial_timeout"),
       !.ReadTimeout = timeoutOption(@, redisOptions, "read_timeout"),
       !.WriteTimeout = timeoutOption(@, redisOptions, "write_timeout"),
       !.PoolTimeout = timeoutOption(@, redisOptions, "pool_timeout")]

(***************************************************************************)
(* The Provider.  prov.client is "none" before a provider exists, then     *)
(* "open" or "closed"; prov.orphans counts the clients that NewProvider    *)
(* created and returned to nobody.  ping is the answer to the liveness     *)
(* probe: "ok", "io" (the store cannot be reached) or "timeout" (the       *)
(* probe's deadline passed).                                               *)
(***************************************************************************)
\* longest run of providers that failed to start
MaxOrphans == 2

NoProvider == [config |-> ZeroConfig, opts |-> ZeroOptions, client |-> "none", orphans |-> 0]

\* the options NewProvider builds the client with
clientOptions(config) ==
    LET opts == buildRedisOptions(config).opts IN
    IF Has(config.Options, "redis") /\ config.Options["redis"][1] = "map"
    THEN applyRedisOptions(opts, config.Options["redis"][2])
    ELSE opts

\* the provider that GetRepository and NewRepository are given in the
\* specifications of the repository
ReadyProvider ==
    [config |-> ZeroConfig, opts |-> clientOptions(ZeroConfig), client |-> "open",
     orphans |-> 0]

NewProvider(config, ping) ==
    LET built == buildRedisOptions(config)
        base == [op |-> "NewProvider", config |-> config, ping |-> ping]
    IN
    /\ prov.client # "open"
    /\ IF built.err # NoErr
       THEN /\ ret' = base @@ [err |-> built.err, provider |-> FALSE]
            /\ UNCHANGED prov
       ELSE IF ping # "ok"
       THEN /\ prov.orphans < MaxOrphans
            /\ prov' = [prov EXCEPT !.orphans = @ + 1]
            /\ ret' = base @@ [err |-> Errorf("failed to connect to Redis", RawError(ping)),
                               provider |-> FALSE]
       ELSE /\ prov' = [prov EXCEPT !.config = config, !.opts = clientOptions(config),
                                    !.client = "open"]
            /\ ret' = base @@ [err |-> NoErr, provider |-> TRUE]
    /\ UNCHANGED <<store, pc, written, lease>>

\* a Configure that rebuilt the client's options from the new configuration
ConfigureReconnects(config) ==
    /\ prov.client # "none"
    /\ prov' = [prov EXCEPT !.config = config, !.opts = clientOptions(config)]
    /\ ret' = [op |-> "Configure", config |-> config, err |-> NoErr]
    /\ UNCHANGED <<store, pc, written, lease>>

Configure(config) ==
    /\ prov.client # "none"
    /\ prov' = [prov EXCEPT !.config = config]
    /\ ret' = [op |-> "Configure", config |-> config, err |-> NoErr]
    /\ UNCHANGED <<store, pc, written, lease>>

\* what a command answers on the provider's client
clientReply(reply) == IF prov.client = "closed" THEN "closed" ELSE reply

Health(ping) ==
    /\ prov.client # "none"
    /\ ret' = [op |-> "Health", ping |-> clientReply(ping), err |-> RawError(clientReply(ping))]
    /\ UNCHANGED <<store, pc, written, lease, prov>>

\* closing a closed client answers the client library's "client is closed"
Close ==
    /\ prov.client # "none"
    /\ prov' = [prov EXCEPT !.client = "closed"]
    /\ ret' = [op |-> "Close", err |-> RawError(clientReply("ok"))]
    /\ UNCHANGED <<store, pc, written, lease>>

(***************************************************************************)
(* The inputs the callers draw from.                                       *)
(***************************************************************************)
\* two repositories over the one connection: GetRepository's empty prefix,
\* and a prefix the keys of the first can begin with
Prefixes == {<<>>, <<"a">>}
UserKeys == {<<"b">>, <<"a", "b">>}
Patterns == {<<"*">>, <<"?", "b">>}
Cursors  == {0, 1}
KeyLists == UNION {[1..n -> UserKeys] : n \in 0..MaxBatch}
PairMaps == UNION {[ks -> Pointers] : ks \in SUBSET UserKeys}
NoFails  == {{}}

(***************************************************************************)
(* Spec: one caller uses both repositories; the store answers every        *)
(* command, every write is persistent, and of the hooks only the           *)
(* before-delete hook can fail.                                            *)
(***************************************************************************)
Init ==
    /\ store = <<>>
    /\ pc = [c \in {"c1"} |-> Idle]
    /\ ret = [op |-> "none"]
    /\ written = <<>>
    /\ lease = <<>>
    /\ prov = ReadyProvider

DoGet ==
    \E c \in DOMAIN pc, r \in Prefixes, k \in UserKeys : Get(c, r, k, "ok", {})
DoSet ==
    \E c \in DOMAIN pc, r \in Prefixes, k \in UserKeys, v \in Pointers :
        Set(c, r, k, v, "ok", {})
DoDeleteKeyGet ==
    \E c \in DOMAIN pc, r \in Prefixes, k \in UserKeys, fails \in SUBSET {"BeforeDelete"} :
        DeleteKeyGet(c, r, k, "ok", fails)
DoDeleteKeyDel ==
    \E c \in DOMAIN pc : DeleteKeyDel(c, "ok", {})
DoKeyExists ==
    \E c \in DOMAIN pc, r \in Prefixes, k \in UserKeys : KeyExists(c, r, k, "ok")
DoMGet ==
    \E c \in DOMAIN pc, r \in Prefixes, keys \in KeyLists : MGet(c, r, keys, "ok")
DoMSet ==
    \E c \in DOMAIN pc, r \in Prefixes, pairs \in PairMaps : MSet(c, r, pairs, "ok")
DoMDelete ==
    \E c \in DOMAIN pc, r \in Prefixes, keys \in KeyLists : MDelete(c, r, keys, "ok")
DoKeys ==
    \E c \in DOMAIN pc, r \in Prefixes, p \in Patterns : Keys(c, r, p, "ok")
DoScan ==
    \E c \in DOMAIN pc, r \in Prefixes, p \in Patterns, cur \in Cursors, nxt \in Cursors :
        \E page \in SUBSET RedisKeys(store, buildKey(r, p)) :
            Scan(c, r, cur, p, page, nxt, "ok")

Next ==
    \/ DoGet
    \/ DoSet
    \/ DoDeleteKeyGet
    \/ DoDeleteKeyDel
    \/ DoKeyExists
    \/ DoMGet
    \/ DoMSet
    \/ DoMDelete
    \/ DoKeys
    \/ DoScan

Spec == Init /\ [][Next]_vars

(***************************************************************************)
(* SpecNum: two callers share one counter repository (a struct-typed       *)
(* repository, as in the tests).  Their store commands interleave in any   *)
(* order; a DeleteKey of one caller can be overtaken by the other.         *)
(***************************************************************************)
NumPrefix == <<"n">>
NumKeys   == {<<"v">>}
Deltas    == {1, 2, 5}

InitNum ==
    /\ store = <<>>
    /\ pc = [c \in {"c1", "c2"} |-> Idle]
    /\ ret = [op |-> "none"]
    /\ written = <<>>
    /\ lease = <<>>
    /\ prov = ReadyProvider

NumIncrement ==
    \E c \in DOMAIN pc, k \in NumKeys, d \in Deltas : Increment(c, NumPrefix, k, d, "ok")
NumDecrement ==
    \E c \in DOMAIN pc, k \in NumKeys, d \in Deltas : Decrement(c, NumPrefix, k, d, "ok")
NumGet ==
    \E c \in DOMAIN pc, k \in NumKeys : Get(c, NumPrefix, k, "ok", {})
NumSet ==
    \E c \in DOMAIN pc, k \in NumKeys : Set(c, NumPrefix, k, Alice, "ok", {})
NumDeleteKeyGet ==
    \E c \in DOMAIN pc, k \in NumKeys : DeleteKeyGet(c, NumPrefix, k, "ok", {})
NumDeleteKeyDel ==
    \E c \in DOMAIN pc : DeleteKeyDel(c, "ok", {})

NextNum ==
    \/ NumIncrement
    \/ NumDecrement
    \/ NumGet
    \/ NumSet
    \/ NumDeleteKeyGet
    \/ NumDeleteKeyDel

SpecNum == InitNum /\ [][NextNum]_vars

(***************************************************************************)
(* SpecWrap: one caller moves a counter by the extreme deltas of the       *)
(* integer width.  The history of applied deltas is a mathematical sum; a  *)
(* call starts only while that sum is itself within the integer range, so  *)
(* that the history stays finite.                                          *)
(***************************************************************************)
WrapDeltas == {MinInt, -1, 1, 2, MaxInt}

InitWrap ==
    /\ store = <<>>
    /\ pc = [c \in {"c1"} |-> Idle]
    /\ ret = [op |-> "none"]
    /\ written = <<>>
    /\ lease = <<>>
    /\ prov = ReadyProvider

WrapInRange(k) ==
    /\ WrittenSum(buildKey(NumPrefix, k)) >= MinInt
    /\ WrittenSum(buildKey(NumPrefix, k)) <= MaxInt

WrapIncrement ==
    \E c \in DOMAIN pc, k \in NumKeys, d \in WrapDeltas :
        WrapInRange(k) /\ Increment(c, NumPrefix, k, d, "ok")
WrapDecrement ==
    \E c \in DOMAIN pc, k \in NumKeys, d \in WrapDeltas :
        WrapInRange(k) /\ Decrement(c, NumPrefix, k, d, "ok")
WrapGet ==
    \E c \in DOMAIN pc, k \in NumKeys : Get(c, NumPrefix, k, "ok", {})
WrapDeleteKeyGet ==
    \E c \in DOMAIN pc, k \in NumKeys : DeleteKeyGet(c, NumPrefix, k, "ok", {})
WrapDeleteKeyDel ==
    \E c \in DOMAIN pc : DeleteKeyDel(c, "ok", {})

NextWrap ==
    \/ WrapIncrement
    \/ WrapDecrement
    \/ WrapGet
    \/ WrapDeleteKeyGet
    \/ WrapDeleteKeyDel

SpecWrap == InitWrap /\ [][NextWrap]_vars

(***************************************************************************)
(* SpecTTL: one caller, one repository, writes with and without a TTL,     *)
(* batch writes, and the passing of time.                                  *)
(***************************************************************************)
TTLPrefix == <<"a">>

InitTTL ==
    /\ store = <<>>
    /\ pc = [c \in {"c1"} |-> Idle]
    /\ ret = [op |-> "none"]
    /\ written = <<>>
    /\ lease = <<>>
    /\ prov = ReadyProvider

TTLGet ==
    \E c \in DOMAIN pc, k \in UserKeys : Get(c, TTLPrefix, k, "ok", {})
TTLSet ==
    \E c \in DOMAIN pc, k \in UserKeys, v \in Pointers : Set(c, TTLPrefix, k, v, "ok", {})
TTLSetWithTTL ==
    \E c \in DOMAIN pc, k \in UserKeys, v \in Pointers, ttl \in 1..MaxTTL :
        SetWithTTL(c, TTLPrefix, k, v, ttl, "ok", {})
TTLMSet ==
    \E c \in DOMAIN pc, pairs \in PairMaps : MSet(c, TTLPrefix, pairs, "ok")
TTLDeleteKeyGet ==
    \E c \in DOMAIN pc, k \in UserKeys : DeleteKeyGet(c, TTLPrefix, k, "ok", {})
TTLDeleteKeyDel ==
    \E c \in DOMAIN pc : DeleteKeyDel(c, "ok", {})

NextTTL ==
    \/ TTLGet
    \/ TTLSet
    \/ TTLSetWithTTL
    \/ TTLMSet
    \/ TTLDeleteKeyGet
    \/ TTLDeleteKeyDel
    \/ Tick

SpecTTL == InitTTL /\ [][NextTTL]_vars

(***************************************************************************)
(* SpecExp: one caller, one repository, the expiry operations and the      *)
(* passing of time.  The commands that read or change an expiry may fail.  *)
(***************************************************************************)
TTLs == 1..MaxTTL

InitExp ==
    /\ store = <<>>
    /\ pc = [c \in {"c1"} |-> Idle]
    /\ ret = [op |-> "none"]
    /\ written = <<>>
    /\ lease = <<>>
    /\ prov = ReadyProvider

ExpGet ==
    \E c \in DOMAIN pc, k \in UserKeys : Get(c, TTLPrefix, k, "ok", {})
ExpSet ==
    \E c \in DOMAIN pc, k \in UserKeys : Set(c, TTLPrefix, k, Alice, "ok", {})
ExpSetWithTTL ==
    \E c \in DOMAIN pc, k \in UserKeys, ttl \in TTLs :
        SetWithTTL(c, TTLPrefix, k, Alice, ttl, "ok", {})
ExpTTL ==
    \E c \in DOMAIN pc, k \in UserKeys, reply \in Replies : TTL(c, TTLPrefix, k, reply)
ExpGetTTL ==
    \E c \in DOMAIN pc, k \in UserKeys, reply \in Replies : GetTTL(c, TTLPrefix, k, reply)
ExpExpire ==
    \E c \in DOMAIN pc, k \in UserKeys, ttl \in {0} \cup TTLs, reply \in Replies :
        Expire(c, TTLPrefix, k, ttl, reply)
ExpSetTTL ==
    \E c \in DOMAIN pc, k \in UserKeys, ttl \in {0} \cup TTLs, reply \in Replies :
        SetTTL(c, TTLPrefix, k, ttl, reply)
ExpRemoveTTL ==
    \E c \in DOMAIN pc, k \in UserKeys, reply \in Replies : RemoveTTL(c, TTLPrefix, k, reply)
ExpDeleteKeyGet ==
    \E c \in DOMAIN pc, k \in UserKeys : DeleteKeyGet(c, TTLPrefix, k, "ok", {})
ExpDeleteKeyDel ==
    \E c \in DOMAIN pc : DeleteKeyDel(c, "ok", {})

NextExp ==
    \/ ExpGet
    \/ ExpSet
    \/ ExpSetWithTTL
    \/ ExpTTL
    \/ ExpGetTTL
    \/ ExpExpire
    \/ ExpSetTTL
    \/ ExpRemoveTTL
    \/ ExpDeleteKeyGet
    \/ ExpDeleteKeyDel
    \/ Tick

SpecExp == InitExp /\ [][NextExp]_vars

(***************************************************************************)
(* SpecHook: one caller, one repository of a type that implements every    *)
(* hook.  Each hook a call runs may return an error, a store command may   *)
(* fail, and the caller also tries the relational operations.              *)
(***************************************************************************)
InitHook ==
    /\ store = <<>>
    /\ pc = [c \in {"c1"} |-> Idle]
    /\ ret = [op |-> "none"]
    /\ written = <<>>
    /\ lease = <<>>
    /\ prov = ReadyProvider

HookGet ==
    \E c \in DOMAIN pc, k \in UserKeys, reply \in Replies, fails \in SUBSET {"AfterFind"} :
        Get(c, TTLPrefix, k, reply, fails)
HookSet ==
    \E c \in DOMAIN pc, k \in UserKeys, v \in TValues, reply \in Replies,
       fails \in SUBSET {"BeforeCreate", "AfterCreate"} :
        Set(c, TTLPrefix, k, v, reply, fails)
HookSetWithTTL ==
    \E c \in DOMAIN pc, k \in UserKeys, v \in TValues, ttl \in TTLs, reply \in Replies,
       fails \in SUBSET {"BeforeCreate", "AfterCreate"} :
        SetWithTTL(c, TTLPrefix, k, v, ttl, reply, fails)
HookDeleteKeyGet ==
    \E c \in DOMAIN pc, k \in UserKeys, reply \in Replies,
       fails \in SUBSET {"AfterFind", "BeforeDelete"} :
        DeleteKeyGet(c, TTLPrefix, k, reply, fails)
HookDeleteKeyDel ==
    \E c \in DOMAIN pc, reply \in Replies, fails \in SUBSET {"AfterDelete"} :
        DeleteKeyDel(c, reply, fails)
HookUnsupported ==
    \E c \in DOMAIN pc, op \in RelationalOps : Unsupported(op, c, TTLPrefix)

NextHook ==
    \/ HookGet
    \/ HookSet
    \/ HookSetWithTTL
    \/ HookDeleteKeyGet
    \/ HookDeleteKeyDel
    \/ HookUnsupported

SpecHook == InitHook /\ [][NextHook]_vars

(***************************************************************************)
(* SpecRace: two callers share one key of a struct-typed repository whose  *)
(* entities have delete hooks; they write values, count on the key, read   *)
(* and delete it.                                                          *)
(***************************************************************************)
RaceKeys == {<<"k">>}

InitRace ==
    /\ store = <<>>
    /\ pc = [c \in {"c1", "c2"} |-> Idle]
    /\ ret = [op |-> "none"]
    /\ written = <<>>
    /\ lease = <<>>
    /\ prov = ReadyProvider

RaceSet ==
    \E c \in DOMAIN pc, k \in RaceKeys, v \in TValues : Set(c, TTLPrefix, k, v, "ok", {})
RaceIncrement ==
    \E c \in DOMAIN pc, k \in RaceKeys : Increment(c, TTLPrefix, k, MaxInt, "ok")
RaceGet ==
    \E c \in DOMAIN pc, k \in RaceKeys : Get(c, TTLPrefix, k, "ok", {})
RaceDeleteKeyGet ==
    \E c \in DOMAIN pc, k \in RaceKeys, reply \in {"ok", "io"},
       fails \in SUBSET {"BeforeDelete"} :
        DeleteKeyGet(c, TTLPrefix, k, reply, fails)
RaceDeleteKeyDel ==
    \E c \in DOMAIN pc, reply \in {"ok", "io"}, fails \in SUBSET {"AfterDelete"} :
        DeleteKeyDel(c, reply, fails)

NextRace ==
    \/ RaceSet
    \/ RaceIncrement
    \/ RaceGet
    \/ RaceDeleteKeyGet
    \/ RaceDeleteKeyDel

SpecRace == InitRace /\ [][NextRace]_vars

(***************************************************************************)
(* SpecList: one repository with a prefix, whose caller also uses the      *)
(* empty key, lists its keys with Keys and Scan.                           *)
(***************************************************************************)
ListKeys == {<<>>, <<"b">>}
ListPatterns == {<<"*">>, <<"?">>}

InitList ==
    /\ store = <<>>
    /\ pc = [c \in {"c1"} |-> Idle]
    /\ ret = [op |-> "none"]
    /\ written = <<>>
    /\ lease = <<>>
    /\ prov = ReadyProvider

ListSet ==
    \E c \in DOMAIN pc, k \in ListKeys, v \in TValues : Set(c, TTLPrefix, k, v, "ok", {})
ListGet ==
    \E c \in DOMAIN pc, k \in ListKeys : Get(c, TTLPrefix, k, "ok", {})
ListMDelete ==
    \E c \in DOMAIN pc, k \in ListKeys : MDelete(c, TTLPrefix, <<k>>, "ok")
ListKeysOp ==
    \E c \in DOMAIN pc, p \in ListPatterns, reply \in {"ok", "io"} :
        Keys(c, TTLPrefix, p, reply)
ListScan ==
    \E c \in DOMAIN pc, p \in ListPatterns, cur \in Cursors, nxt \in Cursors :
        \E page \in SUBSET RedisKeys(store, buildKey(TTLPrefix, p)) :
            Scan(c, TTLPrefix, cur, p, page, nxt, "ok")

NextList ==
    \/ ListSet
    \/ ListGet
    \/ ListMDelete
    \/ ListKeysOp
    \/ ListScan

SpecList == InitList /\ [][NextList]_vars

(***************************************************************************)
(* SpecKeep: one key is written with positive, zero and negative           *)
(* durations while time passes.                                            *)
(***************************************************************************)
Durations == {KeepTTL - 1, KeepTTL, 0} \cup TTLs

InitKeep ==
    /\ store = <<>>
    /\ pc = [c \in {"c1"} |-> Idle]
    /\ ret = [op |-> "none"]
    /\ written = <<>>
    /\ lease = <<>>
    /\ prov = ReadyProvider

KeepSet ==
    \E c \in DOMAIN pc, k \in RaceKeys, v \in TValues : Set(c, TTLPrefix, k, v, "ok", {})
KeepSetWithTTL ==
    \E c \in DOMAIN pc, k \in RaceKeys, v \in TValues, ttl \in Durations,
       reply \in {"ok", "io"} :
        SetWithTTL(c, TTLPrefix, k, v, ttl, reply, {})
KeepGetTTL ==
    \E c \in DOMAIN pc, k \in RaceKeys : TTL(c, TTLPrefix, k, "ok")
KeepGet ==
    \E c \in DOMAIN pc, k \in RaceKeys : Get(c, TTLPrefix, k, "ok", {})

NextKeep ==
    \/ KeepSet
    \/ KeepSetWithTTL
    \/ KeepGetTTL
    \/ KeepGet
    \/ Tick

SpecKeep == InitKeep /\ [][NextKeep]_vars

(***************************************************************************)
(* SpecErr: the error translator applied to error values, and applied      *)
(* again to its own result.                                                *)
(***************************************************************************)
RawErrors == {RawError(name) : name \in {"Nil", "io", "ERR", "closed"}}
Messages  == {"key not found", "failed to deserialize value"}
GPAErrors ==
    {NewErrorWithCause(type, message, cause) :
        type \in Kinds, message \in Messages, cause \in RawErrors \cup {NoErr}}
WrappedErrors ==
    {Errorf("failed to connect to Redis", cause) : cause \in RawErrors \cup GPAErrors}
ErrInputs == {NoErr} \cup RawErrors \cup GPAErrors \cup WrappedErrors

InitErr ==
    /\ store = <<>>
    /\ pc = [c \in {"c1"} |-> Idle]
    /\ ret = [op |-> "none"]
    /\ written = <<>>
    /\ lease = <<>>
    /\ prov = ReadyProvider

\* convertRedisError(err)
Translate ==
    /\ \E err \in ErrInputs :
         ret' = [op |-> "convertRedisError", in |-> err, out |-> convertRedisError(err)]
    /\ UNCHANGED <<store, pc, written, lease, prov>>

\* convertRedisError(convertRedisError(err)); first is err
Retranslate ==
    /\ ret.op = "convertRedisError"
    /\ ret' = [op |-> "retranslate", first |-> ret.in, in |-> ret.out,
               out |-> convertRedisError(ret.out)]
    /\ UNCHANGED <<store, pc, written, lease, prov>>

NextErr ==
    \/ Translate
    \/ Retranslate

SpecErr == InitErr /\ [][NextErr]_vars

(***************************************************************************)
(* SpecProv: a provider is created, probed, reconfigured and closed, and   *)
(* a caller uses the repository that GetRepository builds on its client.   *)
(***************************************************************************)
Pings == {"ok", "io", "timeout"}

\* redis://u:p@h/1
URLWithAuth ==
    RedisScheme \o <<"u", ":", "p", "@", "h", "/", "1">>

\* redis://h/x: the database index of the path is not a number
URLWithBadDatabase ==
    RedisScheme \o <<"h", "/", "x">>

\* an options map with entries that are out of range, unparseable, of the
\* wrong type or unknown next to well-formed ones
MixedOptions ==
    [pool_size |-> <<"int", 0>>,
     min_idle_conns |-> <<"int", -1>>,
     max_retries |-> <<"int", 3>>,
     dial_timeout |-> <<"str", <<"5", "s">>>>,
     read_timeout |-> <<"str", <<"x">>>>,
     write_timeout |-> <<"int", 5>>,
     pool_timeout |-> <<"dur", 4>>,
     tls |-> <<"str", <<"y">>>>]

\* the map of TestInvalidRedisOptions, and a well-formed min_idle_conns
WrongTypeOptions ==
    [max_retries |-> <<"str", <<"x">>>>,
     read_timeout |-> <<"int", 123>>,
     pool_size |-> <<"int", -1>>,
     min_idle_conns |-> <<"int", 0>>]

Configs ==
    {ZeroConfig,
     [ZeroConfig EXCEPT !.Database = <<"x">>],
     [ZeroConfig EXCEPT !.ConnectionURL = URLWithAuth],
     [ZeroConfig EXCEPT !.ConnectionURL = URLWithBadDatabase],
     [ZeroConfig EXCEPT !.Host = <<"h">>, !.Port = 1, !.Database = <<"2">>,
                        !.MaxOpenConns = 7, !.MaxIdleConns = 2,
                        !.Options = [redis |-> <<"map", MixedOptions>>]],
     [ZeroConfig EXCEPT !.MaxIdleConns = 2,
                        !.Options = [redis |-> <<"map", WrongTypeOptions>>]]}

InitProv ==
    /\ store = <<>>
    /\ pc = [c \in {"c1"} |-> Idle]
    /\ ret = [op |-> "none"]
    /\ written = <<>>
    /\ lease = <<>>
    /\ prov = NoProvider

ProvNewProvider ==
    \E config \in Configs, ping \in Pings : NewProvider(config, ping)
ProvConfigure ==
    \E config \in Configs : Configure(config)
ProvHealth ==
    \E ping \in Pings : Health(ping)
ProvClose == Close
ProvSet ==
    /\ prov.client # "none"
    /\ \E c \in DOMAIN pc, k \in UserKeys : Set(c, <<>>, k, Alice, clientReply("ok"), {})
ProvGet ==
    /\ prov.client # "none"
    /\ \E c \in DOMAIN pc, k \in UserKeys : Get(c, <<>>, k, clientReply("ok"), {})

NextProv ==
    \/ ProvNewProvider
    \/ ProvConfigure
    \/ ProvHealth
    \/ ProvClose
    \/ ProvSet
    \/ ProvGet

SpecProv == InitProv /\ [][NextProv]_vars

(***************************************************************************)
(* Properties.  ret describes the step that led to the current state, so   *)
(* a state predicate on ret speaks of the result of that call in the       *)
(* state the call left, and an action formula on ret' speaks of the call   *)
(* that the step is.                                                       *)
(***************************************************************************)
RetKey == buildKey(ret.r, ret.key)
SetBefore(fk) == fk \in DOMAIN written /\ "val" \in DOMAIN written[fk]
Deref(ptr) == IF ptr = NilPtr THEN Zero ELSE ptr

\* C1: round trip.  When a Get reads a key that a successful Set, SetWithTTL
\* or MSet last wrote with the value v, and no delete or expiry removed it
\* since, the Get succeeds and returns a value equal to v on every field.
C1_RoundTrip ==
    (ret.op = "Get" /\ SetBefore(RetKey) /\ written[RetKey].val \in TValues)
    => /\ ret.err = "ok"
       /\ ret.val.Name = written[RetKey].val.Name
       /\ ret.val.Age = written[RetKey].val.Age
       /\ ret.val.Score = written[RetKey].val.Score

\* a Get returned Alice from a key that was written with a TTL still running
C1_Witness ==
    /\ ret.op = "Get"
    /\ ret.err = "ok"
    /\ ret.val = Alice
    /\ SetBefore(RetKey)
    /\ written[RetKey].val = Alice
    /\ store[RetKey].ttl > 0

\* C2: NotFound invariant.  A Get of a key that was never written, or was
\* deleted (DeleteKey, MDelete) and not written since, fails with kind
\* NotFound, so never with kind Database.
C2_NotFound ==
    (ret.op = "Get" /\ RetKey \notin DOMAIN written)
    => ret.err = "NotFound"

\* a Get failed with NotFound while other keys were stored
C2_Witness ==
    /\ ret.op = "Get"
    /\ ret.err = "NotFound"
    /\ RetKey \notin DOMAIN written
    /\ DOMAIN store # {}

\* C3: prefix isolation.  What a repository reads with Get, or is given by
\* Keys or Scan, was written through that repository, never through a
\* repository with another prefix.
C3_PrefixIsolation ==
    /\ (ret.op = "Get" /\ ret.err = "ok") => written[RetKey].by = ret.r
    /\ (ret.op \in {"Keys", "Scan"} /\ ret.err = "ok")
       => \A fk \in DOMAIN ret.val : written[fk].by = ret.r

\* C4: idempotent delete.  A DeleteKey called on an absent key returns
\* success in its first step, leaves the store unchanged and runs no hook.
C4_DeleteAbsent ==
    [][(/\ ret'.op \in {"DeleteKey", "DeleteKey.read"}
        /\ pc[ret'.c] = Idle
        /\ ~Present(store, buildKey(ret'.r, ret'.key)))
       => /\ ret'.op = "DeleteKey"
          /\ ret'.err = "ok"
          /\ ret'.hooks = <<>>
          /\ store' = store
          /\ pc' = pc]_vars

\* a DeleteKey of an absent key returned success without deleting
C4_Witness ==
    /\ ret.op = "DeleteKey"
    /\ ret.err = "ok"
    /\ ~ret.deleted
    /\ ret.hooks = <<>>
    /\ DOMAIN store # {}

\* C5: KeyExists returns true exactly when a value is stored at prefix+key,
\* which is exactly when the key was written and not deleted since, and
\* never returns an error for an absent key.
C5_KeyExists ==
    ret.op = "KeyExists"
    => /\ ret.err = "ok"
       /\ ret.val = Present(store, RetKey)
       /\ ret.val = (RetKey \in DOMAIN written)

\* KeyExists answered false for a key while another key was stored
C5_Witness ==
    /\ ret.op = "KeyExists"
    /\ ret.val = FALSE
    /\ ret.err = "ok"
    /\ DOMAIN store # {}

\* C6: MGet succeeds and returns a map whose keys are exactly the requested
\* keys that hold a value, each mapped to the decoded value that was
\* written there; absent keys are left out.
C6_MGet ==
    ret.op = "MGet"
    => /\ ret.err = "ok"
       /\ DOMAIN ret.val = {k \in Range(ret.keys) : Present(store, buildKey(ret.r, k))}
       /\ \A k \in DOMAIN ret.val :
            ret.val[k] = Deref(written[buildKey(ret.r, k)].val)

\* an MGet of two different keys returned a one-entry map
C6_Witness ==
    /\ ret.op = "MGet"
    /\ ret.err = "ok"
    /\ Cardinality(Range(ret.keys)) = 2
    /\ Cardinality(DOMAIN ret.val) = 1

\* C7: MDelete returns the number of the given keys that existed under the
\* prefix just before the call, removes all of them and leaves every other
\* key unchanged; with no keys it returns 0 and changes nothing.
C7_MDelete ==
    [][ret'.op = "MDelete"
       => LET fullKeys == {buildKey(ret'.r, k) : k \in Range(ret'.keys)} IN
          /\ ret'.err = "ok"
          /\ ret'.val = Cardinality({fk \in fullKeys : Present(store, fk)})
          /\ DOMAIN store' = DOMAIN store \ fullKeys
          /\ \A fk \in DOMAIN store' : store'[fk] = store[fk]
          /\ ret'.keys = <<>> => (ret'.val = 0 /\ store' = store)]_vars

\* an MDelete of two different keys removed one and left another key stored
C7_Witness ==
    /\ ret.op = "MDelete"
    /\ Cardinality(Range(ret.keys)) = 2
    /\ ret.val = 1
    /\ DOMAIN store # {}

\* C8: MSet is all-or-nothing with respect to encoding.  If any value of the
\* batch cannot be encoded, MSet returns a Serialization error and the store
\* is unchanged; an empty batch returns success and the store is unchanged.
C8_MSetAllOrNothing ==
    [][ret'.op = "MSet"
       => /\ (\E k \in DOMAIN ret'.pairs : ~MarshalOk(ret'.pairs[k]))
             => (ret'.err = "Serialization" /\ store' = store)
          /\ DOMAIN ret'.pairs = {} => (ret'.err = "ok" /\ store' = store)]_vars

\* an MSet of two keys, one of them encodable, failed with Serialization
C8_Witness ==
    /\ ret.op = "MSet"
    /\ ret.err = "Serialization"
    /\ Cardinality(DOMAIN ret.pairs) = 2
    /\ \E k \in DOMAIN ret.pairs : MarshalOk(ret.pairs[k])
    /\ DOMAIN store # {}

\* C9: a successful Increment(k, d) returns and stores old + d, and a
\* successful Decrement(k, d) returns and stores old - d, where old is the
\* integer at k or 0 if k is absent.
C9_Increment ==
    [][(ret'.op \in {"Increment", "Decrement"} /\ ret'.err = "ok")
       => LET fk == buildKey(ret'.r, ret'.key)
              old == IF Present(store, fk) THEN store[fk].data[2] ELSE 0
              new == IF ret'.op = "Increment" THEN old + ret'.delta ELSE old - ret'.delta
          IN /\ ret'.val = new
             /\ store'[fk].data = <<"int", new>>]_vars

\* the scenario's last call: Decrement by 2 returned 4
C9_Witness ==
    /\ ret.op = "Decrement"
    /\ ret.err = "ok"
    /\ ret.delta = 2
    /\ ret.val = 4

\* C10: Increment is atomic across callers.  Whatever the interleaving of
\* the callers' Increment and Decrement calls, the counter holds the sum of
\* all the deltas applied to it since it was fresh, and a call returns the
\* value its own update produced.
C10_AtomicIncrement ==
    /\ \A fk \in DOMAIN store :
         IsInt(store[fk].data) => store[fk].data[2] = WrittenSum(fk)
    /\ (ret.op \in {"Increment", "Decrement"} /\ ret.err = "ok")
       => ret.val = store[RetKey].data[2]

\* both callers have updated the counter, the second on top of the first
C10_Witness ==
    /\ ret.op \in {"Increment", "Decrement"}
    /\ ret.err = "ok"
    /\ written[RetKey].who = {"c1", "c2"}
    /\ ret.val # ret.delta

(***************************************************************************)
(* Expiry.  Leased(fk, op) says that the callers' last decision about the  *)
(* expiry of fk was op and is still in force.                              *)
(***************************************************************************)
Leased(fk, op) == fk \in DOMAIN lease /\ lease[fk].op = op

\* C11: after a SetWithTTL(k, v, ttl) with ttl > 0 that no write, delete or
\* TTL change followed, while less than ttl has passed TTL(k) answers a
\* remaining time in (0, ttl] and Get(k) succeeds; once more than ttl has
\* passed Get(k) fails with NotFound.
C11_Expiry ==
    /\ (/\ ret.op \in {"TTL", "GetTTL"}
        /\ ret.reply = "ok"
        /\ Leased(RetKey, "SetWithTTL")
        /\ lease[RetKey].age < lease[RetKey].ttl)
       => (ret.err = "ok" /\ ret.val > 0 /\ ret.val <= lease[RetKey].ttl)
    /\ (/\ ret.op = "Get"
        /\ Leased(RetKey, "SetWithTTL")
        /\ lease[RetKey].age < lease[RetKey].ttl)
       => ret.err = "ok"
    /\ (/\ ret.op = "Get"
        /\ Leased(RetKey, "SetWithTTL")
        /\ lease[RetKey].age > lease[RetKey].ttl)
       => ret.err = "NotFound"

\* a Get failed with NotFound on a key whose TTL of two seconds has run out
C11_Witness ==
    /\ ret.op = "Get"
    /\ ret.err = "NotFound"
    /\ Leased(RetKey, "SetWithTTL")
    /\ lease[RetKey].ttl = 2
    /\ lease[RetKey].age > lease[RetKey].ttl

\* C12: after a successful RemoveTTL(k), until k is deleted or given a TTL
\* (by SetWithTTL, SetTTL or Expire), k stays in the store without expiry
\* and every TTL(k) and GetTTL(k) answers NoExpiry.
C12_RemoveTTLSticks ==
    /\ \A fk \in DOMAIN lease :
         lease[fk].op = "RemoveTTL"
         => (Present(store, fk) /\ store[fk].ttl = NoExpiry)
    /\ (ret.op \in {"TTL", "GetTTL"} /\ ret.reply = "ok" /\ Leased(RetKey, "RemoveTTL"))
       => (ret.err = "ok" /\ ret.val = NoExpiry)

\* GetTTL answered NoExpiry for a key whose removed TTL would have run out
C12_Witness ==
    /\ ret.op = "GetTTL"
    /\ ret.val = NoExpiry
    /\ Leased(RetKey, "RemoveTTL")
    /\ lease[RetKey].age > lease[RetKey].ttl

\* C13: a SetTTL(k, ttl) that the store answers fails with NotFound and
\* leaves the store unchanged when k is absent; when k exists and ttl > 0
\* it succeeds, the remaining TTL of k becomes a value in (0, ttl] and
\* nothing else in the store changes.
C13_SetTTL ==
    [][(ret'.op = "SetTTL" /\ ret'.reply = "ok")
       => LET fk == buildKey(ret'.r, ret'.key) IN
          /\ ~Present(store, fk) => (ret'.err = "NotFound" /\ store' = store)
          /\ (Present(store, fk) /\ ret'.ttl > 0)
             => /\ ret'.err = "ok"
                /\ DOMAIN store' = DOMAIN store
                /\ store'[fk].ttl > 0
                /\ store'[fk].ttl <= ret'.ttl
                /\ store'[fk].data = store[fk].data
                /\ \A k \in DOMAIN store \ {fk} : store'[k] = store[k]]_vars

\* a SetTTL of an absent key failed with NotFound while another key was stored
C13_Witness ==
    /\ ret.op = "SetTTL"
    /\ ret.reply = "ok"
    /\ ret.err = "NotFound"
    /\ DOMAIN store # {}

\* C14: a RemoveTTL(k) that the store answers fails with NotFound exactly
\* when k is absent; on an existing key, with or without an expiry, it
\* succeeds and leaves the key without expiry.
C14_RemoveTTLIff ==
    [][(ret'.op = "RemoveTTL" /\ ret'.reply = "ok")
       => LET fk == buildKey(ret'.r, ret'.key) IN
          /\ ret'.err = "NotFound" <=> ~Present(store, fk)
          /\ Present(store, fk)
             => (ret'.err = "ok" /\ store'[fk].ttl = NoExpiry)]_vars

(***************************************************************************)
(* Hooks.  ret.fails is the set of hooks that return an error when the     *)
(* call runs them, ret.hooks the hooks the call ran.                       *)
(***************************************************************************)
\* C15: when the value stored at k decodes and the before-delete hook
\* returns an error, DeleteKey(k) returns a Validation error in its first
\* step: no DEL is issued, the store is unchanged and the after-delete hook
\* is not run.
C15_BeforeDeleteAborts ==
    [][(/\ ret'.op \in {"DeleteKey", "DeleteKey.read"}
        /\ pc[ret'.c] = Idle
        /\ ret'.reply = "ok"
        /\ "BeforeDelete" \in ret'.fails
        /\ Present(store, buildKey(ret'.r, ret'.key))
        /\ UnmarshalOk(store[buildKey(ret'.r, ret'.key)].data))
       => /\ ret'.op = "DeleteKey"
          /\ ret'.err = "Validation"
          /\ "BeforeDelete" \in Range(ret'.hooks)
          /\ "AfterDelete" \notin Range(ret'.hooks)
          /\ store' = store
          /\ pc' = pc]_vars

\* a DeleteKey was refused by the hook and the key is still there, expiring
C15_Witness ==
    /\ ret.op = "DeleteKey"
    /\ ret.err = "Validation"
    /\ Present(store, RetKey)
    /\ store[RetKey].ttl > 0

\* C16: when the before-create hook returns an error, Set and SetWithTTL
\* return a Validation error, the store is unchanged (the key keeps its
\* previous value and TTL) and the after-create hook is not run.
C16_BeforeCreateAborts ==
    [][(ret'.op \in {"Set", "SetWithTTL"} /\ "BeforeCreate" \in ret'.fails)
       => /\ ret'.err = "Validation"
          /\ "AfterCreate" \notin Range(ret'.hooks)
          /\ store' = store]_vars

\* a SetWithTTL was refused by the hook; the key holds another value and TTL
C16_Witness ==
    /\ ret.op = "SetWithTTL"
    /\ ret.err = "Validation"
    /\ Present(store, RetKey)
    /\ store[RetKey].data # Marshal(ret.value)
    /\ store[RetKey].ttl # ret.ttl

\* C17: after-hooks never abort.  With the after-find hook failing, a Get of
\* a stored value returns it; with the after-create hook failing, a Set or
\* SetWithTTL whose before hook passes returns success with the value
\* stored; with the after-delete hook failing, the second step of DeleteKey
\* returns success with the key removed.
C17_AfterHooksSwallowed ==
    [][/\ (/\ ret'.op = "Get"
           /\ ret'.reply = "ok"
           /\ "AfterFind" \in ret'.fails
           /\ Present(store, buildKey(ret'.r, ret'.key)))
          => /\ ret'.err = "ok"
             /\ ret'.val = Unmarshal(store[buildKey(ret'.r, ret'.key)].data)
             /\ "AfterFind" \in Range(ret'.hooks)
       /\ (/\ ret'.op \in {"Set", "SetWithTTL"}
           /\ ret'.reply = "ok"
           /\ "AfterCreate" \in ret'.fails
           /\ "BeforeCreate" \notin ret'.fails)
          => /\ ret'.err = "ok"
             /\ store'[buildKey(ret'.r, ret'.key)].data = Marshal(ret'.value)
             /\ "AfterCreate" \in Range(ret'.hooks)
       /\ (/\ ret'.op = "DeleteKey"
           /\ pc[ret'.c].stage = "del"
           /\ ret'.reply = "ok"
           /\ "AfterDelete" \in ret'.fails)
          => /\ ret'.err = "ok"
             /\ ~Present(store', buildKey(ret'.r, ret'.key))
             /\ pc[ret'.c].entity # NilPtr => "AfterDelete" \in Range(ret'.hooks)]_vars

\* a DeleteKey removed its key although the after-delete hook it ran failed
C17_Witness ==
    /\ ret.op = "DeleteKey"
    /\ ret.err = "ok"
    /\ ret.deleted
    /\ "AfterDelete" \in ret.fails
    /\ "AfterDelete" \in Range(ret.hooks)
    /\ DOMAIN store # {}

\* C18: every relational operation returns an Unsupported error in every
\* state, without a store command: the store is unchanged, the caller is
\* where it was, and the callback of Transaction is not invoked.
C18_Unsupported ==
    [][ret'.op \in RelationalOps
       => /\ ret'.err = "Unsupported"
          /\ ~ret'.called
          /\ store' = store
          /\ pc' = pc]_vars

\* Transaction was refused while the store held a key
C18_Witness ==
    /\ ret.op = "Transaction"
    /\ ret.err = "Unsupported"
    /\ ~ret.called
    /\ DOMAIN store # {}

(***************************************************************************)
(* Errors and the provider.                                                *)
(***************************************************************************)
\* C19: the error translator maps nil to nil, redis.Nil to a NotFound
\* error, a GPAError to itself, and every other error to a Database error
\* whose cause is the original; translating its result again gives the
\* same error: same kind, message and cause.
C19_ConvertRedisError ==
    /\ ret.op = "convertRedisError"
       => /\ ret.in = NoErr => ret.out = NoErr
          /\ ret.in = RedisNil => (IsGPAError(ret.out) /\ ret.out.Type = "NotFound")
          /\ IsGPAError(ret.in) => ret.out = ret.in
          /\ (ret.in # NoErr /\ ret.in # RedisNil /\ ~IsGPAError(ret.in))
             => /\ IsGPAError(ret.out)
                /\ ret.out.Type = "Database"
                /\ ret.out.Cause = ret.in
    /\ ret.op = "retranslate"
       => /\ Kind(ret.out) = Kind(ret.in)
          /\ ret.out = ret.in

\* a failed command's error was translated to Database and translated again
C19_Witness ==
    /\ ret.op = "retranslate"
    /\ ret.first = RawError("io")
    /\ ret.out.Type = "Database"
    /\ ret.out.Cause = RawError("io")

\* C20: a failed or timed-out probe is reported as a Database error.
\* NewProvider returns a provider only when the probe succeeded, and when
\* the probe failed no provider and a Database error; Health returns nil or
\* a Database error.
C20_ProbeErrorKind ==
    /\ ret.op = "NewProvider"
       => /\ ret.provider => (ret.ping = "ok" /\ ret.err = NoErr)
          /\ (buildRedisOptions(ret.config).err = NoErr /\ ret.ping # "ok")
             => (~ret.provider /\ Kind(ret.err) = "Database")
    /\ ret.op = "Health" => Kind(ret.err) \in {"ok", "Database"}

\* C21: closing a provider that was already closed returns no error, and
\* the connection stays released.
C21_CloseIdempotent ==
    [][(ret'.op = "Close" /\ prov.client = "closed")
       => (ret'.err = NoErr /\ prov'.client = "closed")]_vars

\* C22: Configure always succeeds and replaces only the stored
\* configuration: the client, the options it was built with and the stored
\* data stay as they were, whatever the new configuration is, so a
\* repository reads and writes the same store before and after.
C22_ConfigureOnlyStores ==
    [][ret'.op = "Configure"
       => /\ ret'.err = NoErr
          /\ prov'.config = ret'.config
          /\ prov'.opts = prov.opts
          /\ prov'.client = prov.client
          /\ prov'.orphans = prov.orphans
          /\ store' = store]_vars

\* a connected provider holding stored data was given a configuration
\* whose Database is not a number, and its options are not the ones that
\* configuration would build
C22_Witness ==
    /\ ret.op = "Configure"
    /\ ret.err = NoErr
    /\ prov.client = "open"
    /\ prov.config = ret.config
    /\ buildRedisOptions(prov.config).err # NoErr
    /\ prov.opts # clientOptions(prov.config)
    /\ DOMAIN store # {}

\* C30: a NewProvider that returns an error leaves no client open: the
\* number of clients that were created and never closed does not grow.
C30_FailedConstructionReleases ==
    [][(ret'.op = "NewProvider" /\ ~ret'.provider)
       => prov'.orphans = prov.orphans]_vars

\* the database index that a connection URL names in its path, empty when
\* it names none
URLDatabase(connectionURL) ==
    LET parts == Split(TrimPrefix(connectionURL, RedisScheme), "@")
        segments == Split(parts[Len(parts)], "/")
    IN IF Len(segments) > 1 THEN segments[2] ELSE <<>>

\* C23: building the options fails, and no client is created, whenever the
\* connection URL names a database index that is not a number, and
\* whenever there is no connection URL and Database is a non-empty string
\* that is not a number.
C23_BadDatabaseFails ==
    [][(/\ ret'.op = "NewProvider"
        /\ \/ /\ ret'.config.ConnectionURL # <<>>
              /\ URLDatabase(ret'.config.ConnectionURL) # <<>>
              /\ ~AtoiOk(URLDatabase(ret'.config.ConnectionURL))
           \/ /\ ret'.config.ConnectionURL = <<>>
              /\ ret'.config.Database # <<>>
              /\ ~AtoiOk(ret'.config.Database))
       => /\ ~ret'.provider
          /\ ret'.err # NoErr
          /\ ret'.err = buildRedisOptions(ret'.config).err
          /\ prov' = prov]_vars

\* an entry of the options map that the client can take
WellFormedInt(redisOptions, name, least) ==
    HasInt(redisOptions, name) /\ redisOptions[name][2] >= least
WellFormedTimeout(redisOptions, name) ==
    /\ Has(redisOptions, name)
    /\ \/ redisOptions[name][1] = "dur"
       \/ redisOptions[name][1] = "str" /\ ParseDurationOk(redisOptions[name][2])
TimeoutValue(entry) ==
    IF entry[1] = "dur" THEN entry[2] ELSE ParseDurationVal(entry[2])

\* C24: the "redis" options map never makes NewProvider fail, and in the
\* options of the client each well-formed entry is applied while an entry
\* that is absent, of the wrong type, out of range or unparseable leaves
\* its option at the value buildRedisOptions gave it.
C24_LenientOptions ==
    (ret.op = "NewProvider" /\ Has(ret.config.Options, "redis"))
    => LET before == buildRedisOptions(ret.config)
           ro == ret.config.Options["redis"][2]
           after == prov.opts
       IN /\ (before.err = NoErr /\ ret.ping = "ok") => ret.provider
          /\ ret.provider
             => /\ after.MaxRetries = IF HasInt(ro, "max_retries")
                                      THEN ro["max_retries"][2]
                                      ELSE before.opts.MaxRetries
                /\ after.PoolSize = IF WellFormedInt(ro, "pool_size", 1)
                                    THEN ro["pool_size"][2]
                                    ELSE before.opts.PoolSize
                /\ after.MinIdleConns = IF WellFormedInt(ro, "min_idle_conns", 0)
                                        THEN ro["min_idle_conns"][2]
                                        ELSE before.opts.MinIdleConns
                /\ after.DialTimeout = IF WellFormedTimeout(ro, "dial_timeout")
                                       THEN TimeoutValue(ro["dial_timeout"])
                                       ELSE before.opts.DialTimeout
                /\ after.ReadTimeout = IF WellFormedTimeout(ro, "read_timeout")
                                       THEN TimeoutValue(ro["read_timeout"])
                                       ELSE before.opts.ReadTimeout
                /\ after.WriteTimeout = IF WellFormedTimeout(ro, "write_timeout")
                                        THEN TimeoutValue(ro["write_timeout"])
                                        ELSE before.opts.WriteTimeout
                /\ after.PoolTimeout = IF WellFormedTimeout(ro, "pool_timeout")
                                       THEN TimeoutValue(ro["pool_timeout"])
                                       ELSE before.opts.PoolTimeout
                /\ after.Addr = before.opts.Addr
                /\ after.DB = before.opts.DB

\* a provider was built from a map holding an unknown entry, a pool_size
\* of zero, a negative min_idle_conns and an unparseable read_timeout: the
\* pool settings of the configuration stayed, and max_retries, dial_timeout
\* and pool_timeout of the same map were applied
C24_Witness ==
    /\ ret.op = "NewProvider"
    /\ ret.provider
    /\ Has(ret.config.Options, "redis")
    /\ ret.config.Options["redis"][2] = MixedOptions
    /\ prov.opts.PoolSize = ret.config.MaxOpenConns
    /\ prov.opts.PoolSize > 0
    /\ prov.opts.MinIdleConns = ret.config.MaxIdleConns
    /\ prov.opts.ReadTimeout = 0
    /\ prov.opts.WriteTimeout = 0
    /\ prov.opts.MaxRetries = 3
    /\ prov.opts.DialTimeout = 5
    /\ prov.opts.PoolTimeout = 4

\* C29: for every delta of the integer width, the minimum included, a
\* successful Decrement(k, delta) returns and stores old - delta, where old
\* is the integer at k or 0 if k is absent: the counter moves opposite to
\* the sign of delta.
C29_DecrementSubtracts ==
    [][(ret'.op = "Decrement" /\ ret'.err = "ok")
       => LET fk == buildKey(ret'.r, ret'.key)
              old == IF Present(store, fk) THEN store[fk].data[2] ELSE 0
          IN /\ ret'.val = old - ret'.delta
             /\ store'[fk].data = <<"int", old - ret'.delta>>
             /\ ret'.delta < 0 => ret'.val > old]_vars

\* C25: DeleteKey reads, runs its hook and deletes in separate steps.  When
\* the store answers the delete, the key is removed and the call returns
\* success whatever value the key holds at that moment, and whatever value
\* the before-delete hook ran on.
C25_DeleteNotAtomic ==
    [][(/\ ret'.op = "DeleteKey"
        /\ pc[ret'.c].stage = "del"
        /\ ret'.reply = "ok")
       => LET fk == buildKey(ret'.r, ret'.key) IN
          /\ ret'.err = "ok"
          /\ ret'.deleted
          /\ ~Present(store', fk)
          /\ ret'.entity = pc[ret'.c].entity
          /\ ret'.removed = IF Present(store, fk) THEN store[fk].data ELSE <<>>]_vars

\* the before-delete hook of caller c1 accepted the zero value, caller c2
\* wrote Alice, and the delete of c1 removed Alice and returned success
C25_Witness ==
    /\ ret.op = "DeleteKey"
    /\ ret.c = "c1"
    /\ ret.err = "ok"
    /\ ret.deleted
    /\ ret.hooks = <<"AfterFind", "BeforeDelete", "AfterDelete">>
    /\ ret.entity = Zero
    /\ ret.removed = Marshal(Alice)
    /\ ~Present(store, buildKey(ret.r, ret.key))

\* C28: DeleteKey on a key whose bytes cannot be decoded runs no hook,
\* goes on to the delete, removes the key and returns success; a DeleteKey
\* that returns success without reaching the delete found the key absent.
C28_DeleteUndecodable ==
    [][ret'.op \in {"DeleteKey", "DeleteKey.read"}
       => LET c == ret'.c
              fk == buildKey(ret'.r, ret'.key)
          IN /\ (/\ pc[c] = Idle
                 /\ ret'.reply = "ok"
                 /\ Present(store, fk)
                 /\ ~UnmarshalOk(store[fk].data))
                => /\ ret'.op = "DeleteKey.read"
                   /\ ret'.hooks = <<>>
                   /\ pc'[c].stage = "del"
                   /\ pc'[c].entity = NilPtr
                   /\ pc'[c].hooks = <<>>
             /\ (/\ pc[c].stage = "del"
                 /\ pc[c].entity = NilPtr
                 /\ ret'.reply = "ok")
                => /\ ret'.err = "ok"
                   /\ ret'.deleted
                   /\ ret'.hooks = <<>>
                   /\ ~Present(store', fk)
             /\ (pc[c] = Idle /\ ret'.op = "DeleteKey" /\ ret'.err = "ok")
                => (ret'.reply = "ok" /\ ~Present(store, fk))]_vars

\* a counter made by Increment in the struct-typed repository was removed
\* by a DeleteKey whose hooks were both set to fail, and none of them ran
C28_Witness ==
    /\ ret.op = "DeleteKey"
    /\ ret.err = "ok"
    /\ ret.deleted
    /\ ret.entity = NilPtr
    /\ ret.removed # <<>>
    /\ IsInt(ret.removed)
    /\ ret.hooks = <<>>
    /\ "AfterDelete" \in ret.fails
    /\ ~Present(store, buildKey(ret.r, ret.key))

\* C27: every key that Keys or Scan returns is the caller-side key of the
\* store key it stands for, so a Get of it finds that stored value; and
\* Keys returns every key written through the repository that matches the
\* pattern, the empty key included.
C27_FlatNamespace ==
    /\ (ret.op \in {"Keys", "Scan"} /\ ret.err = "ok")
       => \A fk \in DOMAIN ret.val :
             /\ buildKey(ret.r, ret.val[fk]) = fk
             /\ Present(store, buildKey(ret.r, ret.val[fk]))
    /\ (ret.op = "Keys" /\ ret.err = "ok")
       => \A k \in ListKeys :
             (Present(store, buildKey(ret.r, k)) /\ GlobMatch(ret.pattern, k))
             => \E fk \in DOMAIN ret.val : ret.val[fk] = k

\* C26: after a successful Set or SetWithTTL with a duration of zero or
\* less the key is persistent: the store holds it without expiry and TTL
\* reports the no-expiration value, whatever expiry the key had before.
C26_NonPositiveIsForever ==
    [][(ret'.op \in {"Set", "SetWithTTL"} /\ ret'.err = "ok" /\ ret'.ttl <= 0)
       => LET fk == buildKey(ret'.r, ret'.key) IN
          /\ Present(store', fk)
          /\ store'[fk].ttl = NoExpiry
          /\ RedisTTL(store', fk) = NoExpiry]_vars

====
